---- MODULE Spec2Model ----
(***************************************************************************)
(* A model of the telemetry ingestion engine of src/utils/orbcomm.js       *)
(* (class OrbcommClient) and of the visibility rule of                     *)
(* src/config/clients.js.                                                  *)
(*                                                                         *)
(* Encodings.                                                              *)
(*  - Times are integers, in milliseconds.                                 *)
(*  - A JavaScript Date is [valid, ms]; an Invalid Date (the result of     *)
(*    new Date("garbage")) has valid = FALSE.  A JavaScript number that    *)
(*    may be NaN is encoded the same way.  Every comparison with NaN is    *)
(*    false, as in JavaScript.                                             *)
(*  - A timestamp string is [parses, ms]: an ISO string of the instant ms, *)
(*    or a string Date cannot parse.                                       *)
(*  - null/undefined is the empty sequence <<>>, a present value x is <<x>>*)
(*  - An asset id is the sequence of its characters.                       *)
(***************************************************************************)
EXTENDS Integers, Sequences, FiniteSets, TLC

VARIABLES
    now,            \* the wall clock read by new Date() / Date.now()
    upstream,       \* the upstream: [seq, last], the Sequence number of its next
                    \* envelope and the envelope it sent last
    eventCount,     \* this.eventCount: single-envelope messages received
    lastEventTime,  \* this.lastEventTime
    kaguAssetCount, \* this.kaguAssetCount
    assetStatus,    \* this.assetStatus: asset id -> presence record
    deviceData,     \* this.deviceData: asset id -> latest enriched event
    historicalData, \* this.historicalData: asset id -> history ring
    returned,       \* what the last processEvent call returned (null: <<>>)
    message,        \* the message handleMessage was called with last
    messageHandlers,\* this.messageHandlers: the handlers, in insertion order
    delivered,      \* handler id -> what the handler was invoked with, in order
    issued,         \* how many handlers addMessageHandler was ever called with
    ws,             \* this.ws: null or the number of a socket
    sockets,        \* the sockets created and not yet collected, numbered
    isConnected,    \* this.isConnected
    reconnectAttempts, \* this.reconnectAttempts
    heartbeatTimer, \* this.heartbeatTimer: null or an interval that runs
    intervals,      \* how many intervals were set and not cleared
    timeouts,       \* the delays of the pending setTimeout calls, ascending
    lastHeartbeat,  \* this.lastHeartbeat
    uncaught,       \* whether an exception left a callback uncaught
    called,         \* the calls of connect() and disconnect() from outside:
                    \* [n, last], how many there were and which was the last
    probe,          \* the last call of a pure function: its arguments and value
    database        \* the storage collaborator: [mode, pending, stored], whether
                    \* it is connected, the storeEvent calls in flight and the
                    \* events it stored

\* The fields of the ingestion path.
ingestVars == <<now, upstream, eventCount, lastEventTime, kaguAssetCount,
                assetStatus, deviceData, historicalData, returned>>

\* The handler registry and what the handlers saw.
fanVars == <<message, messageHandlers, delivered, issued>>

\* The fields of the connection manager, its sockets and its timers.
connVars == <<ws, sockets, isConnected, reconnectAttempts, heartbeatTimer,
              intervals, timeouts, lastHeartbeat, uncaught, called>>

vars == <<ingestVars, fanVars, connVars, probe, database>>

----------------------------------------------------------------------------
(* Bounds of the model. *)

\* Envelopes the upstream sends in one run.
MaxEvents == 2

\* Events inserted into one history ring in the ring specification.
MaxInserted == 150

----------------------------------------------------------------------------
(* Program constants. *)

OfflineThreshold == 900000

DelayThreshold == 300000

HistoryCap == 100

MsPerSecond == 1000

MsPerMinute == 60000

MsPerHour == 3600000

MsPerDay == 86400000

----------------------------------------------------------------------------
(* null / undefined *)

None == <<>>

Some(x) == <<x>>

IsSome(o) == o # <<>>

Get(o) == o[1]

----------------------------------------------------------------------------
(* Dates, numbers and timestamp strings *)

Date(t) == [valid |-> TRUE, ms |-> t]

InvalidDate == [valid |-> FALSE, ms |-> 0]

\* new Date(string)
ParseDate(s) == IF s.parses THEN Date(s.ms) ELSE InvalidDate

\* date.toISOString() of a valid date (it throws RangeError on an invalid one)
ToISOString(d) == [parses |-> TRUE, ms |-> d.ms]

Garbage == [parses |-> FALSE, ms |-> 0]

\* d1 - d2
DateDiff(d1, d2) ==
    IF d1.valid /\ d2.valid THEN [valid |-> TRUE, ms |-> d1.ms - d2.ms]
    ELSE InvalidDate

\* d1 > d2
DateGT(d1, d2) == d1.valid /\ d2.valid /\ d1.ms > d2.ms

\* n <= k, n a number that may be NaN
NumLE(n, k) == n.valid /\ n.ms <= k

\* n > k
NumGT(n, k) == n.valid /\ n.ms > k

\* n < k
NumLT(n, k) == n.valid /\ n.ms < k

----------------------------------------------------------------------------
(* Asset ids and the visibility rule of src/config/clients.js *)

KAGU3331339 == <<"K","A","G","U","3","3","3","1","3","3","9">>

\* clients.KAGU.specificAssets, in the order of the configuration
SpecificAssets ==
    << <<"T","R","I","U","8","7","8","4","7","8","7">>,
       <<"K","A","G","U","3","3","3","0","9","5","0">>,
       <<"K","A","G","U","3","3","3","0","8","2","0">>,
       <<"S","Z","L","U","9","7","2","1","4","1","7">>,
       <<"S","Z","L","U","3","9","6","1","9","1","4">>,
       <<"K","A","G","U","3","3","3","1","1","8","0">>,
       KAGU3331339,
       <<"K","A","G","U","3","3","3","1","2","8","3">>,
       <<"K","A","G","U","7","7","7","1","2","2","8">>,
       <<"K","A","G","U","3","3","3","1","3","0","2">> >>

\* clients.KAGU.assetPatterns
AssetPatterns ==
    { <<"K","A","G","U","*">>, <<"S","Z","L","U","*">>, <<"T","R","I","U","*">> }

ClientIds == {"KAGU"}

Range(f) == {f[i] : i \in DOMAIN f}

\* The position of the first "*" of a pattern, 0 when it has none.
FirstStar(p) ==
    IF \E i \in 1..Len(p) : p[i] = "*"
    THEN CHOOSE i \in 1..Len(p) : p[i] = "*" /\ \A j \in 1..(i-1) : p[j] # "*"
    ELSE 0

\* A slip in the pattern: ".+" for ".*", an id must go on after the prefix.
RegexTest_plus(p, id) ==
    LET k == FirstStar(p) IN
    IF k = 0 THEN id = p
    ELSE LET pre == SubSeq(p, 1, k - 1)
             post == SubSeq(p, k + 1, Len(p))
         IN /\ Len(id) > Len(pre) + Len(post)
            /\ SubSeq(id, 1, Len(pre)) = pre
            /\ SubSeq(id, Len(id) - Len(post) + 1, Len(id)) = post

\* new RegExp('^' + pattern.replace('*', '.*') + '$').test(id), for a pattern of
\* literal characters with at most one "*": replace() rewrites the first "*" only.
\* The ids hold no line terminator, the one character "." does not match.
RegexTest(p, id) ==
    LET k == FirstStar(p) IN
    IF k = 0 THEN id = p
    ELSE LET pre == SubSeq(p, 1, k - 1)
             post == SubSeq(p, k + 1, Len(p))
         IN /\ Len(id) >= Len(pre) + Len(post)
            /\ SubSeq(id, 1, Len(pre)) = pre
            /\ SubSeq(id, Len(id) - Len(post) + 1, Len(id)) = post

validateClientAccess(clientId, assetId) ==
    IF clientId \notin ClientIds THEN FALSE
    ELSE IF assetId \in Range(SpecificAssets) THEN TRUE
    ELSE \E p \in AssetPatterns : RegexTest(p, assetId)

\* A slip in filterAssetsForClient: the device's asset id comes first.
filterAssetsForClient_deviceFirst(clientId, events) ==
    IF clientId \notin ClientIds THEN <<>>
    ELSE LET Keep(event) ==
               LET deviceAssetId == IF event.hasEvent THEN event.lastAssetId ELSE <<>>
                   reeferAssetId == IF event.hasEvent THEN event.reeferAssetId ELSE <<>>
                   assetToCheck == IF deviceAssetId # <<>> /\ deviceAssetId[1] # <<>>
                                   THEN deviceAssetId ELSE reeferAssetId
               IN IF assetToCheck = <<>> \/ assetToCheck[1] = <<>> THEN FALSE
                  ELSE IF assetToCheck[1] \in Range(SpecificAssets) THEN TRUE
                  ELSE \E p \in AssetPatterns : RegexTest(p, assetToCheck[1])
         IN SelectSeq(events, Keep)

\* filterAssetsForClient(clientId, events), lines 64-92: its own copy of the
\* rule, not a call of validateClientAccess.  An asset id is null (<<>>) or
\* <<text>>; null and the empty text are falsy.
filterAssetsForClient(clientId, events) ==
    IF clientId \notin ClientIds THEN <<>>
    ELSE LET Keep(event) ==
               LET deviceAssetId == IF event.hasEvent THEN event.lastAssetId ELSE <<>>
                   reeferAssetId == IF event.hasEvent THEN event.reeferAssetId ELSE <<>>
                   assetToCheck == IF reeferAssetId # <<>> /\ reeferAssetId[1] # <<>>
                                   THEN reeferAssetId ELSE deviceAssetId
               IN IF assetToCheck = <<>> \/ assetToCheck[1] = <<>> THEN FALSE
                  ELSE IF assetToCheck[1] \in Range(SpecificAssets) THEN TRUE
                  ELSE \E p \in AssetPatterns : RegexTest(p, assetToCheck[1])
         IN SelectSeq(events, Keep)

----------------------------------------------------------------------------
(* Presence queries *)

\* A slip in getAssetStatus: the threshold instant itself counts as offline.
getAssetStatus_strict(status, assetId, t) ==
    IF assetId \notin DOMAIN status THEN "unknown"
    ELSE LET lastSeen == status[assetId].lastSeen
             timeDiff == DateDiff(Date(t), lastSeen)
         IN IF NumLT(timeDiff, OfflineThreshold) THEN "online" ELSE "offline"

\* getAssetStatus(assetId)
getAssetStatus(status, assetId, t) ==
    IF assetId \notin DOMAIN status THEN "unknown"
    ELSE LET lastSeen == status[assetId].lastSeen
             timeDiff == DateDiff(Date(t), lastSeen)
         IN IF NumLE(timeDiff, OfflineThreshold) THEN "online" ELSE "offline"

\* The texts getOfflineDuration builds: 'Just now' and `${n} minutes ago`, ...;
\* Math.floor(NaN / k) prints as NaN.
Duration(bucket, n) == [bucket |-> bucket, n |-> n, nan |-> FALSE]

NaNDays == [bucket |-> "days", n |-> 0, nan |-> TRUE]

\* getOfflineDuration(assetId)
getOfflineDuration(status, assetId, t) ==
    IF assetId \notin DOMAIN status THEN None
    ELSE IF status[assetId].status = "online" THEN None
    ELSE LET diffMs == DateDiff(Date(t), status[assetId].lastSeen) IN
         IF NumLT(diffMs, MsPerMinute) THEN Some(Duration("Just now", 0))
         ELSE IF NumLT(diffMs, MsPerHour)
              THEN Some(Duration("minutes", diffMs.ms \div MsPerMinute))
         ELSE IF NumLT(diffMs, MsPerDay)
              THEN Some(Duration("hours", diffMs.ms \div MsPerHour))
         ELSE IF diffMs.valid THEN Some(Duration("days", diffMs.ms \div MsPerDay))
         ELSE Some(NaNDays)

----------------------------------------------------------------------------
(* Time lags as texts *)

Abs(x) == IF x < 0 THEN 0 - x ELSE x

\* The text of a lag: `${a}ms`, `${a/10}s`, `${a}m ${b}s`, `${a}h ${b}m`,
\* and "NaNh NaNm" for a lag that is NaN.
Lag(unit, a, b) == [unit |-> unit, a |-> a, b |-> b, nan |-> FALSE]

NaNLag == [unit |-> "h", a |-> 0, b |-> 0, nan |-> TRUE]

\* calculateTimeLag(timestamp1, timestamp2), both non-empty strings.
\* toFixed(1) rounds the seconds to the nearest tenth.
calculateTimeLag(timestamp1, timestamp2) ==
    LET time1 == ParseDate(timestamp1)
        time2 == ParseDate(timestamp2)
        d == DateDiff(time2, time1)
        diffMs == Abs(d.ms)
    IN IF ~d.valid THEN NaNLag
       ELSE IF diffMs < MsPerSecond THEN Lag("ms", diffMs, 0)
       ELSE IF diffMs < MsPerMinute THEN Lag("s", (diffMs + 50) \div 100, 0)
       ELSE IF diffMs < MsPerHour
            THEN Lag("m", diffMs \div MsPerMinute, (diffMs % MsPerMinute) \div MsPerSecond)
       ELSE Lag("h", diffMs \div MsPerHour, (diffMs % MsPerHour) \div MsPerMinute)

\* parseTimeLag(lagString): a number, NaN for "NaNh NaNm"
parseTimeLag(lagString) ==
    IF lagString.nan THEN InvalidDate
    ELSE IF lagString.unit = "ms" THEN [valid |-> TRUE, ms |-> lagString.a]
    ELSE IF lagString.unit = "s" THEN [valid |-> TRUE, ms |-> lagString.a * 100]
    ELSE IF lagString.unit = "m"
         THEN [valid |-> TRUE, ms |-> (lagString.a * 60 + lagString.b) * MsPerSecond]
    ELSE [valid |-> TRUE, ms |-> (lagString.a * 3600 + lagString.b * 60) * MsPerSecond]

----------------------------------------------------------------------------
(* The normalizer *)

\* `x || y` and `!!x` on an asset id: null, undefined and '' are falsy.
TruthyId(o) == IsSome(o) /\ Get(o) # <<>>

\* On a number: null, undefined and 0 are falsy.
TruthyNum(o) == IsSome(o) /\ Get(o) # 0

\* The canonical event transformOrbcommEvent builds, lines 613-706, for the
\* asset id assetId; the fields that no operation of the model reads are left
\* out.
Transformed(eventData, assetId, t) ==
    [sequence |-> eventData.Sequence,
     assetId |-> Get(assetId),
     eventTimestamp |-> IF IsSome(eventData.EventDtm)
                        THEN Get(eventData.EventDtm)
                        ELSE ToISOString(Date(t)),
     receivedTimestamp |-> ToISOString(Date(t)),
     gpsData |-> [latitude |-> eventData.lat,
                  longitude |-> eventData.lon,
                  hasGPS |-> TruthyNum(eventData.lat)
                             /\ TruthyNum(eventData.lon)],
     lastAssetId |-> eventData.lastAssetId,
     reeferAssetId |-> eventData.reeferAssetId,
     hasReeferData |-> TruthyId(eventData.reeferAssetId),
     hasGeofenceData |-> TruthyId(eventData.geofenceId)]

\* A slip in transformOrbcommEvent: the device's asset id comes first.
transformOrbcommEvent_deviceFirst(eventData, t) ==
    IF ~eventData.hasEvent THEN None
    ELSE IF eventData.messageEvents = "holes" THEN None
    ELSE LET assetId == IF TruthyId(eventData.lastAssetId)
                        THEN eventData.lastAssetId ELSE eventData.reeferAssetId
         IN IF ~TruthyId(assetId) THEN None
            ELSE Some(Transformed(eventData, assetId, t))

\* transformOrbcommEvent(eventData), read at wall-clock time t.  An envelope is
\* [hasEvent, Sequence, reeferAssetId, lastAssetId, EventDtm, lat, lon,
\* geofenceId, messageEvents].  messageEvents is MessageData.Events: "absent",
\* an array of "objects", or an array with "holes", elements that are null:
\* evt.EventType of line 596 throws TypeError on a null element, and the catch
\* of lines 709-712 returns null.
transformOrbcommEvent(eventData, t) ==
    IF ~eventData.hasEvent THEN None
    ELSE IF eventData.messageEvents = "holes" THEN None
    ELSE LET assetId == IF TruthyId(eventData.reeferAssetId)
                        THEN eventData.reeferAssetId ELSE eventData.lastAssetId
         IN IF ~TruthyId(assetId) THEN None
            ELSE Some(Transformed(eventData, assetId, t))

----------------------------------------------------------------------------
(* The presence tracker *)

\* The record updateAssetStatus starts from when the asset has none.
NewStatus(eventTime, t) ==
    [firstSeen |-> eventTime,
     lastSeen |-> eventTime,
     lastLocation |-> None,
     status |-> "unknown",
     eventCount |-> 0,
     lastEventReceived |-> t,
     hasDelayedReports |-> FALSE,
     lastDelayedReportReceived |-> None]

\* A slip in lines 435-442: an event that is not newer is not counted.
TouchStatus_dropOld(cur, eventTime, t) ==
    IF DateGT(eventTime, cur.lastSeen)
    THEN [cur EXCEPT !.lastSeen = eventTime, !.lastEventReceived = t,
                     !.eventCount = cur.eventCount + 1]
    ELSE cur

\* A slip in lines 435-442: an event whose time is the stored lastSeen is taken
\* for a duplicate and not counted.
TouchStatus_dedupe(cur, eventTime, t) ==
    [cur EXCEPT !.lastSeen = IF DateGT(eventTime, cur.lastSeen)
                             THEN eventTime ELSE cur.lastSeen,
                !.lastEventReceived = t,
                !.eventCount = IF eventTime = cur.lastSeen
                               THEN cur.eventCount ELSE cur.eventCount + 1]

\* Lines 435-442: lastSeen moves forward only; the receipt is always counted.
TouchStatus(cur, eventTime, t) ==
    [cur EXCEPT !.lastSeen = IF DateGT(eventTime, cur.lastSeen)
                             THEN eventTime ELSE cur.lastSeen,
                !.lastEventReceived = t,
                !.eventCount = cur.eventCount + 1]

\* A slip in lines 444-456: a fix that is not older replaces the stored one.
LocateStatus_notOlder(cur, eventTime, eventData) ==
    IF ~eventData.gpsData.hasGPS THEN cur
    ELSE LET newLocation == [latitude |-> Get(eventData.gpsData.latitude),
                             longitude |-> Get(eventData.gpsData.longitude),
                             timestamp |-> ToISOString(eventTime)]
         IN IF ~IsSome(cur.lastLocation)
               \/ ~DateGT(ParseDate(Get(cur.lastLocation).timestamp), eventTime)
            THEN [cur EXCEPT !.lastLocation = Some(newLocation)]
            ELSE cur

\* Lines 444-456: the last known location, replaced only by a newer fix.
\* eventTime is valid here: toISOString() has not thrown.
LocateStatus(cur, eventTime, eventData) ==
    IF ~eventData.gpsData.hasGPS THEN cur
    ELSE LET newLocation == [latitude |-> Get(eventData.gpsData.latitude),
                             longitude |-> Get(eventData.gpsData.longitude),
                             timestamp |-> ToISOString(eventTime)]
         IN IF ~IsSome(cur.lastLocation)
               \/ DateGT(eventTime, ParseDate(Get(cur.lastLocation).timestamp))
            THEN [cur EXCEPT !.lastLocation = Some(newLocation)]
            ELSE cur

\* Lines 458-463: the stored status, from the age of this event.
AgeStatus(cur, eventTime, t) ==
    LET eventAge == DateDiff(Date(t), eventTime) IN
    [cur EXCEPT !.status = IF NumLE(eventAge, OfflineThreshold)
                           THEN "online" ELSE "offline"]

\* A slip in lines 465-470: the flag follows the last event.
DelayStatus_last(cur, eventTime, t) ==
    LET isDelayedReport == NumGT(DateDiff(Date(t), eventTime), DelayThreshold) IN
    IF isDelayedReport
    THEN [cur EXCEPT !.hasDelayedReports = TRUE,
                     !.lastDelayedReportReceived = Some(t)]
    ELSE [cur EXCEPT !.hasDelayedReports = FALSE]

\* Lines 465-470: the delayed-report flag.
DelayStatus(cur, eventTime, t) ==
    LET isDelayedReport == NumGT(DateDiff(Date(t), eventTime), DelayThreshold) IN
    IF isDelayedReport
    THEN [cur EXCEPT !.hasDelayedReports = TRUE,
                     !.lastDelayedReportReceived = Some(t)]
    ELSE cur

\* f with key k set to v
MapSet(f, k, v) == [x \in DOMAIN f \cup {k} |-> IF x = k THEN v ELSE f[x]]

\* updateAssetStatus(assetId, eventTime, eventData) at wall-clock time t:
\* [threw, status].  With a GPS fix and an Invalid Date, eventTime.toISOString()
\* throws RangeError after the record was touched: a record already in the map
\* is the object that was touched, a new one was never put into the map.
updateAssetStatus(status, assetId, eventTime, eventData, t) ==
    LET currentStatus == IF assetId \in DOMAIN status THEN status[assetId]
                         ELSE NewStatus(eventTime, t)
        touched == TouchStatus(currentStatus, eventTime, t)
    IN IF eventData.gpsData.hasGPS /\ ~eventTime.valid
       THEN [threw |-> TRUE,
             status |-> IF assetId \in DOMAIN status
                        THEN MapSet(status, assetId, touched) ELSE status]
       ELSE [threw |-> FALSE,
             status |-> MapSet(status, assetId,
                          DelayStatus(
                            AgeStatus(
                              LocateStatus(touched, eventTime, eventData),
                              eventTime, t),
                            eventTime, t))]

\* A slip in storeHistoricalData: push() where unshift() is meant.
StoreRing_push(history, eventData, t) ==
    LET entry == [event |-> eventData, storedAt |-> ToISOString(Date(t))]
        grown == history \o <<entry>>
    IN IF Len(grown) > HistoryCap THEN SubSeq(grown, 1, HistoryCap) ELSE grown

\* storeHistoricalData(assetId, eventData) at wall-clock time t, on one ring
StoreRing(history, eventData, t) ==
    LET entry == [event |-> eventData, storedAt |-> ToISOString(Date(t))]
        grown == <<entry>> \o history
    IN IF Len(grown) > HistoryCap THEN SubSeq(grown, 1, HistoryCap) ELSE grown

storeHistoricalData(hist, assetId, eventData, t) ==
    LET history == IF assetId \in DOMAIN hist THEN hist[assetId] ELSE <<>>
    IN MapSet(hist, assetId, StoreRing(history, eventData, t))

----------------------------------------------------------------------------
(* processEvent and handleMessage *)

\* The enriched event of lines 258-281, built after the presence update.
EnrichedEvent(transformedEvent, status, t) ==
    LET eventToReceived == calculateTimeLag(transformedEvent.eventTimestamp,
                                            transformedEvent.receivedTimestamp)
        isDelayedReport == NumGT(parseTimeLag(eventToReceived), DelayThreshold)
    IN [event |-> transformedEvent,
        receivedAt |-> transformedEvent.receivedTimestamp,
        status |-> getAssetStatus(status, transformedEvent.assetId, t),
        lastUpdate |-> transformedEvent.eventTimestamp,
        offlineDuration |-> getOfflineDuration(status, transformedEvent.assetId, t),
        isDelayedReport |-> isDelayedReport,
        eventToReceived |-> eventToReceived]

\* A slip: an envelope whose Sequence is in the asset's ring already is taken
\* for a duplicate and dropped.
processEvent_skipsSeen(status, device, hist, kagu, eventData, t) ==
    LET transformed == transformOrbcommEvent(eventData, t)
        dropped == [status |-> status, device |-> device, hist |-> hist,
                    kagu |-> kagu, returned |-> None]
    IN IF ~IsSome(transformed) THEN dropped
       ELSE IF ~validateClientAccess("KAGU", Get(transformed).assetId) THEN dropped
       ELSE IF /\ Get(transformed).assetId \in DOMAIN hist
               /\ \E n \in DOMAIN hist[Get(transformed).assetId] :
                     hist[Get(transformed).assetId][n].event.event.sequence
                        = Get(transformed).sequence
            THEN dropped
       ELSE LET transformedEvent == Get(transformed)
                statusUpdateTime == ParseDate(transformedEvent.eventTimestamp)
                upd == updateAssetStatus(status, transformedEvent.assetId,
                                         statusUpdateTime, transformedEvent, t)
                enrichedEvent == EnrichedEvent(transformedEvent, upd.status, t)
            IN IF upd.threw
               THEN [status |-> upd.status, device |-> device, hist |-> hist,
                     kagu |-> kagu + 1, returned |-> None]
               ELSE [status |-> upd.status,
                     device |-> MapSet(device, transformedEvent.assetId, enrichedEvent),
                     hist |-> storeHistoricalData(hist, transformedEvent.assetId,
                                                  enrichedEvent, t),
                     kagu |-> kagu + 1,
                     returned |-> Some(enrichedEvent)]

\* A slip in lines 245-247: the visibility gate is left out.
processEvent_noGate(status, device, hist, kagu, eventData, t) ==
    LET transformed == transformOrbcommEvent(eventData, t)
        dropped == [status |-> status, device |-> device, hist |-> hist,
                    kagu |-> kagu, returned |-> None]
    IN IF ~IsSome(transformed) THEN dropped
       ELSE LET transformedEvent == Get(transformed)
                statusUpdateTime == ParseDate(transformedEvent.eventTimestamp)
                upd == updateAssetStatus(status, transformedEvent.assetId,
                                         statusUpdateTime, transformedEvent, t)
                enrichedEvent == EnrichedEvent(transformedEvent, upd.status, t)
            IN IF upd.threw
               THEN [status |-> upd.status, device |-> device, hist |-> hist,
                     kagu |-> kagu + 1, returned |-> None]
               ELSE [status |-> upd.status,
                     device |-> MapSet(device, transformedEvent.assetId, enrichedEvent),
                     hist |-> storeHistoricalData(hist, transformedEvent.assetId,
                                                  enrichedEvent, t),
                     kagu |-> kagu + 1,
                     returned |-> Some(enrichedEvent)]

\* A slip in line 283: the current data is replaced only by an event that is
\* not older by event time than the one held.
processEvent_keepNewest(status, device, hist, kagu, eventData, t) ==
    LET transformed == transformOrbcommEvent(eventData, t)
        dropped == [status |-> status, device |-> device, hist |-> hist,
                    kagu |-> kagu, returned |-> None]
    IN IF ~IsSome(transformed) THEN dropped
       ELSE IF ~validateClientAccess("KAGU", Get(transformed).assetId) THEN dropped
       ELSE LET transformedEvent == Get(transformed)
                statusUpdateTime == ParseDate(transformedEvent.eventTimestamp)
                upd == updateAssetStatus(status, transformedEvent.assetId,
                                         statusUpdateTime, transformedEvent, t)
                enrichedEvent == EnrichedEvent(transformedEvent, upd.status, t)
                held == transformedEvent.assetId \in DOMAIN device
                older == held /\ DateGT(ParseDate(device[transformedEvent.assetId].lastUpdate),
                                        statusUpdateTime)
            IN IF upd.threw
               THEN [status |-> upd.status, device |-> device, hist |-> hist,
                     kagu |-> kagu + 1, returned |-> None]
               ELSE [status |-> upd.status,
                     device |-> IF older THEN device
                                ELSE MapSet(device, transformedEvent.assetId, enrichedEvent),
                     hist |-> storeHistoricalData(hist, transformedEvent.assetId,
                                                  enrichedEvent, t),
                     kagu |-> kagu + 1,
                     returned |-> Some(enrichedEvent)]

\* processEvent(eventData) at wall-clock time t, on the three stores:
\* [status, device, hist, kagu, returned].  An exception of updateAssetStatus is
\* caught by processEvent, which returns null.  One handler runs within one
\* millisecond: every new Date() of the call reads the same t.
processEvent(status, device, hist, kagu, eventData, t) ==
    LET transformed == transformOrbcommEvent(eventData, t)
        dropped == [status |-> status, device |-> device, hist |-> hist,
                    kagu |-> kagu, returned |-> None]
    IN IF ~IsSome(transformed) THEN dropped
       ELSE IF ~validateClientAccess("KAGU", Get(transformed).assetId) THEN dropped
       ELSE LET transformedEvent == Get(transformed)
                statusUpdateTime == ParseDate(transformedEvent.eventTimestamp)
                upd == updateAssetStatus(status, transformedEvent.assetId,
                                         statusUpdateTime, transformedEvent, t)
                enrichedEvent == EnrichedEvent(transformedEvent, upd.status, t)
            IN IF upd.threw
               THEN [status |-> upd.status, device |-> device, hist |-> hist,
                     kagu |-> kagu + 1, returned |-> None]
               ELSE [status |-> upd.status,
                     device |-> MapSet(device, transformedEvent.assetId, enrichedEvent),
                     hist |-> storeHistoricalData(hist, transformedEvent.assetId,
                                                  enrichedEvent, t),
                     kagu |-> kagu + 1,
                     returned |-> Some(enrichedEvent)]

----------------------------------------------------------------------------
(* Read operations *)

\* getAssetData(assetId)
getAssetData(device, assetId) ==
    IF assetId \in DOMAIN device THEN Some(device[assetId]) ELSE None

\* getHistoricalDataForAsset(assetId)
getHistoricalDataForAsset(hist, assetId) ==
    IF assetId \in DOMAIN hist THEN hist[assetId] ELSE <<>>

\* The elements of the set S as a sequence.  The model keeps a Map as a
\* function and not the order its keys were inserted in: the order here is
\* one order, chosen once.
RECURSIVE SeqOf(_)
SeqOf(S) ==
    IF S = {} THEN <<>>
    ELSE LET x == CHOOSE y \in S : TRUE IN <<x>> \o SeqOf(S \ {x})

\* getAllAssetsData(): { assetId, ...data } for every entry of deviceData.
getAllAssetsData(device) ==
    LET keys == SeqOf(DOMAIN device)
    IN [i \in DOMAIN keys |-> [assetId |-> device[keys[i]].event.assetId,
                               data |-> device[keys[i]]]]

\* getAssetsForClient(clientId), lines 744-762.
getAssetsForClient(device, clientId) ==
    LET allAssets == getAllAssetsData(device)
        eventsFormat ==
            [i \in DOMAIN allAssets |->
                [hasEvent |-> TRUE,
                 lastAssetId |-> allAssets[i].data.event.lastAssetId,
                 reeferAssetId |-> allAssets[i].data.event.reeferAssetId]]
        filteredEvents == filterAssetsForClient(clientId, eventsFormat)
        filteredAssetIds ==
            { IF TruthyId(filteredEvents[i].reeferAssetId)
              THEN filteredEvents[i].reeferAssetId
              ELSE filteredEvents[i].lastAssetId : i \in DOMAIN filteredEvents }
        Has(asset) == Some(asset.assetId) \in filteredAssetIds
    IN SelectSeq(allAssets, Has)

\* One entry of getAllAssetsForClient: the fields the three branches share.
ListingEntry(status, device, assetId, t) ==
    IF assetId \in DOMAIN device
    THEN [assetId |-> assetId,
          status |-> device[assetId].status,
          lastUpdate |-> Some(device[assetId].lastUpdate),
          offlineDuration |-> device[assetId].offlineDuration,
          lastKnownLocation |-> IF assetId \in DOMAIN status
                                THEN status[assetId].lastLocation ELSE None]
    ELSE IF assetId \in DOMAIN status
    THEN [assetId |-> assetId,
          status |-> getAssetStatus(status, assetId, t),
          lastUpdate |-> IF status[assetId].lastSeen.valid
                         THEN Some(ToISOString(status[assetId].lastSeen)) ELSE None,
          offlineDuration |-> getOfflineDuration(status, assetId, t),
          lastKnownLocation |-> status[assetId].lastLocation]
    ELSE [assetId |-> assetId,
          status |-> "never_seen",
          lastUpdate |-> None,
          offlineDuration |-> None,
          lastKnownLocation |-> None]

\* getExpectedAssetsForClient(clientId).specificAssets
ExpectedAssets(clientId) == IF clientId \in ClientIds THEN SpecificAssets ELSE <<>>

\* getAllAssetsForClient(clientId)
getAllAssetsForClient(status, device, clientId, t) ==
    [i \in DOMAIN ExpectedAssets(clientId) |->
        ListingEntry(status, device, ExpectedAssets(clientId)[i], t)]

\* getOfflineAssetsForClient(clientId)
getOfflineAssetsForClient(status, device, clientId, t) ==
    LET Off(asset) == asset.status = "offline" \/ asset.status = "never_seen"
    IN SelectSeq(getAllAssetsForClient(status, device, clientId, t), Off)

\* getOnlineAssetsForClient(clientId)
getOnlineAssetsForClient(status, device, clientId, t) ==
    LET On(asset) == asset.status = "online"
    IN SelectSeq(getAllAssetsForClient(status, device, clientId, t), On)

----------------------------------------------------------------------------
(* The environment: the clock and the upstream *)

\* The instant the run starts at.
Start == 3 * MsPerDay

\* The instants the clock is read at.
Clock ==
    { Start, Start + OfflineThreshold, Start + OfflineThreshold + MsPerMinute,
      Start + 2 * MsPerHour, Start + 2 * MsPerDay }

\* How long before its receipt an event happened (negative: a device clock ahead).
Lags == { DelayThreshold, 2 * DelayThreshold,
          OfflineThreshold + MsPerMinute, 0 - MsPerMinute }

\* An asset the patterns admit and the allow-list does not name.
SZLU1 == <<"S","Z","L","U","1">>

\* An asset of another client.
ZZZZ1 == <<"Z","Z","Z","Z","1">>

\* The asset ids, [reefer, device], of the envelopes of other assets: one the
\* patterns admit, one of another client behind a visible device id, and none.
OtherIds ==
    { [reefer |-> None, device |-> Some(SZLU1)],
      [reefer |-> Some(ZZZZ1), device |-> Some(KAGU3331339)],
      [reefer |-> None, device |-> None] }

\* MessageData.EventDtm: absent, an instant, or a text Date cannot parse.
DtmChoices(t) ==
    {None, Some(Garbage)} \cup {Some(ToISOString(Date(t - lag))) : lag \in Lags}

Envelope(n, reefer, device, dtm, gps) ==
    [hasEvent |-> TRUE, Sequence |-> n,
     reeferAssetId |-> reefer, lastAssetId |-> device,
     EventDtm |-> dtm, lat |-> gps, lon |-> gps,
     geofenceId |-> None, messageEvents |-> "absent"]

\* The envelopes the upstream may send at time t with Sequence n: for asset
\* KAGU3331339 every event time, with and without a GPS fix (told apart by its
\* coordinates); for the other ids a plain report.
Envelopes(t, n) ==
    { Envelope(n, Some(KAGU3331339), None, dtm, gps) :
         dtm \in DtmChoices(t), gps \in {None, Some(n)} }
    \cup { Envelope(n, ids.reefer, ids.device, None, None) : ids \in OtherIds }

----------------------------------------------------------------------------
(* The state machine *)

Init ==
    /\ now = Start
    /\ upstream = [seq |-> 1, last |-> None]
    /\ eventCount = 0
    /\ lastEventTime = None
    /\ kaguAssetCount = 0
    /\ assetStatus = <<>>
    /\ deviceData = <<>>
    /\ historicalData = <<>>
    /\ returned = None
    /\ message = None
    /\ messageHandlers = <<>>
    /\ delivered = <<>>
    /\ issued = 0
    /\ ws = None
    /\ sockets = <<>>
    /\ isConnected = FALSE
    /\ reconnectAttempts = 0
    /\ heartbeatTimer = None
    /\ intervals = 0
    /\ timeouts = <<>>
    /\ lastHeartbeat = Start
    /\ uncaught = FALSE
    /\ called = [n |-> 0, last |-> "none"]
    /\ probe = None
    /\ database = [mode |-> "off", pending |-> 0, stored |-> 0]

\* handleMessage(data) for a message holding one envelope (lines 212-219)
HandleSingle(eventData) ==
    LET r == processEvent(assetStatus, deviceData, historicalData,
                          kaguAssetCount, eventData, now)
    IN /\ lastEventTime' = Some(ToISOString(Date(now)))
       /\ eventCount' = eventCount + 1
       /\ assetStatus' = r.status
       /\ deviceData' = r.device
       /\ historicalData' = r.hist
       /\ kaguAssetCount' = r.kagu
       /\ returned' = r.returned
       /\ UNCHANGED now

\* The upstream sends a new envelope.
Receive ==
    /\ eventCount < MaxEvents
    /\ \E eventData \in Envelopes(now, upstream.seq) :
          /\ HandleSingle(eventData)
          /\ upstream' = [seq |-> upstream.seq + 1, last |-> Some(eventData)]
    /\ UNCHANGED <<fanVars, connVars, probe, database>>

\* The upstream sends its last envelope again.
Resend ==
    /\ eventCount < MaxEvents
    /\ IsSome(upstream.last)
    /\ HandleSingle(Get(upstream.last))
    /\ UNCHANGED <<upstream, fanVars, connVars, probe, database>>

\* Time passes.
Tick ==
    /\ \E t \in Clock : t > now /\ now' = t
    /\ UNCHANGED <<upstream, eventCount, lastEventTime, kaguAssetCount,
                   assetStatus, deviceData, historicalData, returned>>
    /\ UNCHANGED <<fanVars, connVars, probe, database>>

Next == Receive \/ Resend \/ Tick

Spec == Init /\ [][Next]_vars

----------------------------------------------------------------------------
(* Delayed reports: events that happened any time before or after receipt *)

\* How long before its receipt an event happened, around every bound of
\* calculateTimeLag and around the delay threshold, on both sides of now.
DelayLags ==
    { 0, MsPerSecond - 1, MsPerSecond, MsPerMinute - 1, MsPerMinute,
      DelayThreshold - 1, DelayThreshold, DelayThreshold + 1,
      DelayThreshold + MsPerSecond - 1, DelayThreshold + MsPerSecond,
      MsPerHour - 1, MsPerHour, MsPerHour + DelayThreshold,
      0 - DelayThreshold, 0 - DelayThreshold - 1, 0 - 2 * DelayThreshold }

\* The upstream sends a report of asset KAGU3331339 with one of these lags.
ReceiveLagged ==
    /\ eventCount < MaxEvents
    /\ \E lag \in DelayLags :
          LET eventData == Envelope(upstream.seq, Some(KAGU3331339), None,
                                    Some(ToISOString(Date(now - lag))), None)
          IN /\ HandleSingle(eventData)
             /\ upstream' = [seq |-> upstream.seq + 1, last |-> Some(eventData)]
    /\ UNCHANGED <<fanVars, connVars, probe, database>>

NextLag == ReceiveLagged

SpecLag == Init /\ [][NextLag]_vars

----------------------------------------------------------------------------
(* The history ring on its own: storeHistoricalData called again and again *)

\* The n-th event inserted.
RingEvent(n) == [sequence |-> n, assetId |-> KAGU3331339]

StoreStep ==
    /\ upstream.seq <= MaxInserted
    /\ historicalData' = storeHistoricalData(historicalData, KAGU3331339,
                                             RingEvent(upstream.seq), now)
    /\ upstream' = [upstream EXCEPT !.seq = upstream.seq + 1]
    /\ UNCHANGED <<now, eventCount, lastEventTime, kaguAssetCount,
                   assetStatus, deviceData, returned>>
    /\ UNCHANGED <<fanVars, connVars, probe, database>>

NextRing == StoreStep

SpecRing == Init /\ [][NextRing]_vars

----------------------------------------------------------------------------
(* Helpers of the properties *)

Min(a, b) == IF a < b THEN a ELSE b

\* The asset ids a run may name.
AllAssets == Range(SpecificAssets) \cup {SZLU1, ZZZZ1}

\* Whether the step is a call of handleMessage.
IsHandleStep == eventCount' = eventCount + 1

\* The instants, in arrival order from the newest, of the events of a ring
\* whose event time parses.
ValidTimes(history) ==
    { ParseDate(history[i].event.lastUpdate).ms :
        i \in { j \in DOMAIN history : history[j].event.lastUpdate.parses } }

SetMax(S) == CHOOSE x \in S : \A y \in S : y <= x

----------------------------------------------------------------------------
(* C1 *)

\* C1 (as claimed): for every asset, after every update the record's lastSeen
\* is the greatest event time applied so far, whatever the order of arrival.
\* The ring holds every accepted event of a run of this length.
C1_LastSeenIsMax ==
    \A a \in DOMAIN assetStatus :
        LET times == ValidTimes(getHistoricalDataForAsset(historicalData, a))
        IN times # {} => assetStatus[a].lastSeen = Date(SetMax(times))

----------------------------------------------------------------------------
(* C2 *)

----------------------------------------------------------------------------
(* C3 *)

\* C3 (as claimed): an asset without a presence record has status 'never_seen',
\* through getAssetStatus and through getAllAssetsForClient.
C3_NeverSeen ==
    /\ \A a \in AllAssets \ DOMAIN assetStatus :
          getAssetStatus(assetStatus, a, now) = "never_seen"
    /\ \A i \in DOMAIN SpecificAssets :
          SpecificAssets[i] \notin DOMAIN assetStatus =>
             getAllAssetsForClient(assetStatus, deviceData, "KAGU", now)[i].status
                = "never_seen"

----------------------------------------------------------------------------
(* C4 *)

\* C4 (as claimed): the status every read operation exposes for an asset is the
\* status recomputed at read time from now - lastSeen.
C4_StatusNeverStale ==
    /\ \A a \in DOMAIN deviceData :
          Get(getAssetData(deviceData, a)).status
             = getAssetStatus(assetStatus, a, now)
    /\ \A i \in DOMAIN SpecificAssets :
          SpecificAssets[i] \in DOMAIN assetStatus =>
             getAllAssetsForClient(assetStatus, deviceData, "KAGU", now)[i].status
                = getAssetStatus(assetStatus, SpecificAssets[i], now)
    /\ \A a \in Range(SpecificAssets) \cap DOMAIN assetStatus :
          /\ (\E i \in DOMAIN getOnlineAssetsForClient(assetStatus, deviceData, "KAGU", now) :
                 getOnlineAssetsForClient(assetStatus, deviceData, "KAGU", now)[i].assetId = a)
               <=> getAssetStatus(assetStatus, a, now) = "online"
          /\ (\E i \in DOMAIN getOfflineAssetsForClient(assetStatus, deviceData, "KAGU", now) :
                 getOfflineAssetsForClient(assetStatus, deviceData, "KAGU", now)[i].assetId = a)
               <=> getAssetStatus(assetStatus, a, now) = "offline"

----------------------------------------------------------------------------
(* C5 *)

\* C5: after n insertions the ring holds min(n, 100) entries, the newest first:
\* entry i is the (n - i + 1)-th event inserted, so that every insertion past
\* the cap discards the oldest entry and nothing else.
C5_RingNewestFirst ==
    LET n == upstream.seq - 1
        h == getHistoricalDataForAsset(historicalData, KAGU3331339)
    IN /\ Len(h) = Min(n, 100)
       /\ \A i \in 1..Len(h) : h[i].event = RingEvent(n - i + 1)

\* 150 events were inserted: 100 are left and the first is the 150th.
C5_Witness ==
    LET h == getHistoricalDataForAsset(historicalData, KAGU3331339)
    IN /\ upstream.seq - 1 = 150
       /\ Len(h) = 100
       /\ h[1].event = RingEvent(150)

----------------------------------------------------------------------------
(* Helpers of the properties about one step *)

\* The step is a call of handleMessage whose processEvent returned the event.
Accepted == IsHandleStep /\ IsSome(returned')

\* The enriched event the step returned, its asset and its two instants.
StepEvent == Get(returned')

StepAsset == StepEvent.event.assetId

StepEventTime == ParseDate(StepEvent.lastUpdate)

StepReceived == ParseDate(StepEvent.receivedAt)

\* The fix of an enriched event that has one.
FixOf(e) ==
    [latitude |-> Get(e.event.gpsData.latitude),
     longitude |-> Get(e.event.gpsData.longitude),
     timestamp |-> e.lastUpdate]

\* The stored location of an asset, null when it has no record.
LocationOf(status, a) ==
    IF a \in DOMAIN status THEN status[a].lastLocation ELSE None

----------------------------------------------------------------------------
(* C6 *)

\* C6: a visible event whose event time parses is accepted whatever that time
\* is, and every accepted event adds one to the record's eventCount, sets
\* lastEventReceived to the arrival time and is put at the head of the ring
\* (the entries before it kept, up to the cap); one that lags more than 5
\* minutes is flagged on the record, and one newer than lastSeen advances it.
C6_DelayedNotDropped ==
    [][ /\ IsHandleStep =>
              LET tr == transformOrbcommEvent(Get(upstream'.last), now) IN
              (/\ IsSome(tr)
               /\ validateClientAccess("KAGU", Get(tr).assetId)
               /\ Get(tr).eventTimestamp.parses)
              => (IsSome(returned') /\ StepEvent.event = Get(tr))
        /\ Accepted =>
              LET a == StepAsset
                  known == a \in DOMAIN assetStatus
                  oldCount == IF known THEN assetStatus[a].eventCount ELSE 0
                  oldRing == getHistoricalDataForAsset(historicalData, a)
                  newRing == getHistoricalDataForAsset(historicalData', a)
              IN /\ a \in DOMAIN assetStatus'
                 /\ assetStatus'[a].eventCount = oldCount + 1
                 /\ assetStatus'[a].lastEventReceived = now
                 /\ StepReceived = Date(now)
                 /\ Len(newRing) = Min(Len(oldRing) + 1, 100)
                 /\ newRing[1].event = StepEvent
                 /\ \A i \in 2..Len(newRing) : newRing[i] = oldRing[i - 1]
                 /\ (StepEventTime.valid /\ now - StepEventTime.ms > 300000)
                       => assetStatus'[a].hasDelayedReports
                 /\ (known /\ DateGT(StepEventTime, assetStatus[a].lastSeen))
                       => assetStatus'[a].lastSeen = StepEventTime
                 /\ ~known => assetStatus'[a].lastSeen = StepEventTime
      ]_vars

\* The event accepted last happened 10 minutes before it arrived and before an
\* event that arrived earlier: it is counted, stored first and flagged.
C6_Witness ==
    /\ IsSome(returned)
    /\ LET e == Get(returned)
           a == e.event.assetId
       IN /\ ParseDate(e.lastUpdate).valid
          /\ now - ParseDate(e.lastUpdate).ms = 10 * MsPerMinute
          /\ ParseDate(e.receivedAt) = Date(now)
          /\ assetStatus[a].lastSeen.valid
          /\ assetStatus[a].lastSeen.ms > ParseDate(e.lastUpdate).ms
          /\ assetStatus[a].eventCount = 2
          /\ assetStatus[a].hasDelayedReports
          /\ Len(historicalData[a]) = 2
          /\ historicalData[a][1].event = e

----------------------------------------------------------------------------
(* C7 *)

\* C7: an accepted event received more than 5 minutes after its event time
\* sets hasDelayedReports; once set the flag stays set; and getAssetStatus
\* gives the same result whatever the flag holds.
C7_DelayFlagSticky ==
    [][ /\ Accepted =>
              ((StepEventTime.valid /\ StepReceived.ms - StepEventTime.ms > 300000)
                  => assetStatus'[StepAsset].hasDelayedReports)
        /\ \A a \in DOMAIN assetStatus :
              assetStatus[a].hasDelayedReports
                 => (a \in DOMAIN assetStatus' /\ assetStatus'[a].hasDelayedReports)
        /\ \A a \in DOMAIN assetStatus' : \A d \in BOOLEAN :
              getAssetStatus([assetStatus' EXCEPT ![a].hasDelayedReports = d], a, now')
                 = getAssetStatus(assetStatus', a, now')
      ]_vars

\* The record is flagged, the event accepted last was not delayed, and the
\* asset is online.
C7_Witness ==
    /\ IsSome(returned)
    /\ LET e == Get(returned)
           a == e.event.assetId
       IN /\ assetStatus[a].hasDelayedReports
          /\ ~e.isDelayedReport
          /\ ParseDate(e.lastUpdate).valid
          /\ ParseDate(e.receivedAt).ms - ParseDate(e.lastUpdate).ms <= 300000
          /\ getAssetStatus(assetStatus, a, now) = "online"

----------------------------------------------------------------------------
(* C8 *)

\* The fix of the GPS-bearing events of a ring with the greatest event time
\* (of several with that time, the one that arrived first), null without one.
GreatestFix(history) ==
    LET G == { i \in DOMAIN history : history[i].event.event.gpsData.hasGPS }
        T(i) == ParseDate(history[i].event.lastUpdate).ms
    IN IF G = {} THEN None
       ELSE LET top == { i \in G : \A j \in G : T(j) <= T(i) }
            IN Some(FixOf(history[SetMax(top)].event))

\* C8: lastLocation changes only in a step that accepts an event with a GPS fix
\* whose event time is strictly newer than the stored location's timestamp, or
\* when none is stored, and then becomes that fix; afterwards it is the fix of
\* the GPS-bearing event with the greatest event time.
C8_LocationNewestFix ==
    [][ /\ \A a \in DOMAIN assetStatus' :
              LET old == LocationOf(assetStatus, a)
                  new == LocationOf(assetStatus', a)
                  newer == /\ Accepted
                           /\ StepAsset = a
                           /\ StepEvent.event.gpsData.hasGPS
                           /\ \/ old = None
                              \/ StepEventTime.ms > ParseDate(Get(old).timestamp).ms
              IN IF newer THEN new = Some(FixOf(StepEvent)) ELSE new = old
        /\ \A a \in DOMAIN assetStatus' :
              Len(getHistoricalDataForAsset(historicalData', a)) < 100
                 => assetStatus'[a].lastLocation
                       = GreatestFix(getHistoricalDataForAsset(historicalData', a))
      ]_vars

\* The event accepted last carries a fix that is as old as the stored one, and
\* the stored one, with other coordinates, was kept.
C8_Witness ==
    /\ IsSome(returned)
    /\ LET e == Get(returned)
           a == e.event.assetId
       IN /\ e.event.gpsData.hasGPS
          /\ IsSome(assetStatus[a].lastLocation)
          /\ Get(assetStatus[a].lastLocation).timestamp = e.lastUpdate
          /\ Get(assetStatus[a].lastLocation).latitude
                # Get(e.event.gpsData.latitude)

----------------------------------------------------------------------------
(* C9 *)

\* C9 (as claimed): getOfflineDuration is null exactly when the asset has no
\* record or getAssetStatus reports it online, and otherwise the bucket of
\* now - lastSeen.
C9_DurationFollowsStatus ==
    \A a \in AllAssets :
        LET d == getOfflineDuration(assetStatus, a, now)
            st == getAssetStatus(assetStatus, a, now)
        IN /\ d = None <=> (a \notin DOMAIN assetStatus \/ st = "online")
           /\ (d # None /\ assetStatus[a].lastSeen.valid) =>
                 LET diff == now - assetStatus[a].lastSeen.ms IN
                 Get(d) = IF diff < 60000 THEN Duration("Just now", 0)
                          ELSE IF diff < 3600000 THEN Duration("minutes", diff \div 60000)
                          ELSE IF diff < 86400000 THEN Duration("hours", diff \div 3600000)
                          ELSE Duration("days", diff \div 86400000)

----------------------------------------------------------------------------
(* C10 *)

\* The step handles again the envelope handled last.
IsResendStep == IsHandleStep /\ upstream' = upstream

\* The step is made at the clock reading of the last handleMessage.
SameInstant == lastEventTime = Some(ToISOString(Date(now)))

\* The asset a resent envelope updates the record of: the visible asset it
\* resolves to.
ResentAssets ==
    LET tr == transformOrbcommEvent(Get(upstream.last), now) IN
    IF IsSome(tr) /\ validateClientAccess("KAGU", Get(tr).assetId)
    THEN {Get(tr).assetId} ELSE {}

\* C10 (as claimed): applying the same update a second time leaves the
\* presence records as the first application left them.
C10_Idempotent ==
    [][ (IsResendStep /\ SameInstant) => assetStatus' = assetStatus ]_vars

\* C10 (amended): applying the same update again leaves firstSeen, lastSeen and
\* lastLocation as the first application left them and, at the same clock
\* reading, the status, the delay flag and the receipt times too; eventCount
\* is one more after every application.
C10_IdempotentButCount ==
    [][ (IsResendStep /\ (SameInstant \/ IsSome(Get(upstream.last).EventDtm))) =>
           /\ DOMAIN assetStatus' = DOMAIN assetStatus
           /\ \A a \in DOMAIN assetStatus :
                 LET o == assetStatus[a]
                     n == assetStatus'[a]
                 IN /\ n.firstSeen = o.firstSeen
                    /\ n.lastSeen = o.lastSeen
                    /\ n.lastLocation = o.lastLocation
                    /\ n.eventCount = o.eventCount
                                        + (IF a \in ResentAssets THEN 1 ELSE 0)
                    /\ SameInstant => n = [o EXCEPT !.eventCount = n.eventCount]
      ]_vars

\* An accepted envelope was handled twice at one clock reading: the ring holds
\* the same event twice and the record counts two.
C10_Witness ==
    \E a \in DOMAIN assetStatus :
        /\ a \in DOMAIN historicalData
        /\ Len(historicalData[a]) = 2
        /\ historicalData[a][1] = historicalData[a][2]
        /\ assetStatus[a].eventCount = 2

----------------------------------------------------------------------------
(* The connection fields a handler can reach: stopHeartbeat and disconnect *)

\* The connection manager's fields as one record.
Conn ==
    [ws |-> ws, sockets |-> sockets, isConnected |-> isConnected,
     reconnectAttempts |-> reconnectAttempts, heartbeatTimer |-> heartbeatTimer,
     intervals |-> intervals, timeouts |-> timeouts,
     lastHeartbeat |-> lastHeartbeat, uncaught |-> uncaught]

\* stopHeartbeat(): clearInterval of the interval this.heartbeatTimer holds,
\* which runs: nothing else clears an interval.
stopHeartbeat(c) ==
    IF IsSome(c.heartbeatTimer)
    THEN [c EXCEPT !.intervals = @ - 1, !.heartbeatTimer = None]
    ELSE c

\* socket.close() of the ws library: an open socket starts closing and emits
\* 'close' later; a connecting one gives up and emits 'error', then 'close';
\* on any other socket it does nothing.
CloseSocket(socks, s) ==
    IF socks[s].readyState = "OPEN"
    THEN [socks EXCEPT ![s].readyState = "CLOSING"]
    ELSE IF socks[s].readyState = "CONNECTING"
    THEN [socks EXCEPT ![s].readyState = "CLOSING", ![s].erring = TRUE]
    ELSE socks

\* A slip in disconnect(): the attempts are forgotten.
disconnect_fresh(c) ==
    LET stopped == stopHeartbeat(c) IN
    [stopped EXCEPT !.sockets = IF IsSome(c.ws) THEN CloseSocket(@, Get(c.ws)) ELSE @,
                    !.ws = None,
                    !.isConnected = FALSE,
                    !.reconnectAttempts = 0]

\* disconnect(), lines 857-863; line 864 clears the handler set.
disconnect(c) ==
    LET stopped == stopHeartbeat(c) IN
    [stopped EXCEPT !.sockets = IF IsSome(c.ws) THEN CloseSocket(@, Get(c.ws)) ELSE @,
                    !.ws = None,
                    !.isConnected = FALSE]

----------------------------------------------------------------------------
(* Fan-out: the handler set and the forEach of processEvent *)

\* Handlers addMessageHandler is called with in one run.
MaxHandlers == 3

\* A handler function: its identity and what it does when invoked.
\*   "send"        forwards the event (the handler of the /ws/kagu route)
\*   "throw"       throws
\*   "subscribe"   registers one more handler
\*   "unsubscribe" calls the unsubscribe handle of handler arg
\*   "disconnect"  calls disconnect()
Handler(id, does, arg) == [id |-> id, does |-> does, arg |-> arg]

\* The handlers a caller may register as the id-th registration of a run.  The
\* first one may do anything to the registry, so that every handler after it
\* in the order of the Set is within its reach; the second may throw.
Handlers(id) ==
    IF id = 1
    THEN { Handler(id, does, 0) : does \in {"send", "subscribe", "disconnect"} }
         \cup { Handler(id, "unsubscribe", arg) : arg \in {1, 2} }
    ELSE IF id = 2
    THEN { Handler(id, does, 0) : does \in {"send", "throw"} }
    ELSE { Handler(id, "send", 0) }

\* The registry as a forEach in progress walks it: [entries, delivered, issued,
\* conn].  entries is the entry list of the Set: a deleted entry stays in the
\* list as an empty slot (null), an added one is appended.
Registry(handlers, dlv, n, c) ==
    [entries |-> [i \in DOMAIN handlers |-> Some(handlers[i])],
     delivered |-> dlv, issued |-> n, conn |-> c]

\* The handlers of an entry list, in order.
Compact(entries) ==
    LET present == SelectSeq(entries, IsSome)
    IN [i \in DOMAIN present |-> Get(present[i])]

\* messageHandlers.add(handler), line 729, for a handler function that was
\* not registered before.
addMessageHandler(f, h) ==
    [f EXCEPT !.entries = Append(@, Some(h)),
              !.delivered = Append(@, <<>>),
              !.issued = @ + 1]

\* A slip: the handle empties the set.
removeHandler_all(f, id) ==
    [f EXCEPT !.entries = [i \in DOMAIN @ |-> None]]

\* The handle addMessageHandler returned for handler id:
\* messageHandlers.delete(handler), line 730.
removeHandler(f, id) ==
    [f EXCEPT !.entries =
        [i \in DOMAIN @ |-> IF IsSome(@[i]) /\ Get(@[i]).id = id THEN None ELSE @[i]]]

\* messageHandlers.clear(), line 864, and the rest of disconnect().
disconnectAll(f) ==
    [f EXCEPT !.entries = [i \in DOMAIN @ |-> None],
              !.conn = disconnect(@)]

\* What a handler is invoked with, and what it finds in the client at that
\* moment: the event count of the asset's record and whether the head of the
\* asset's ring is the event.
Observation(status, hist, e) ==
    LET a == e.event.assetId IN
    [event |-> e,
     count |-> IF a \in DOMAIN status THEN status[a].eventCount ELSE 0,
     stored |-> a \in DOMAIN hist /\ hist[a][1].event = e]

\* handler(enrichedEvent): [f, threw].
InvokeHandler(f, h, e, status, hist) ==
    LET got == [f EXCEPT !.delivered[h.id] = Append(@, Observation(status, hist, e))]
    IN CASE h.does = "send" -> [f |-> got, threw |-> FALSE]
         [] h.does = "throw" -> [f |-> got, threw |-> TRUE]
         [] h.does = "subscribe" ->
              [f |-> IF got.issued < MaxHandlers
                     THEN addMessageHandler(got, Handler(got.issued + 1, "send", 0))
                     ELSE got,
               threw |-> FALSE]
         [] h.does = "unsubscribe" ->
              [f |-> removeHandler(got, h.arg), threw |-> FALSE]
         [] h.does = "disconnect" ->
              [f |-> disconnectAll(got), threw |-> FALSE]

\* A slip: the handler is called without try/catch.
TryHandler_rethrow(f, h, e, status, hist) ==
    InvokeHandler(f, h, e, status, hist)

\* try { handler(enrichedEvent) } catch (error) { logger.error(...) }
TryHandler(f, h, e, status, hist) ==
    [f |-> InvokeHandler(f, h, e, status, hist).f, threw |-> FALSE]

\* this.messageHandlers.forEach(...), from entry i on: Set.prototype.forEach
\* walks the live entry list, skips the empty slots and reaches the entries
\* appended meanwhile.  [f, threw].
RECURSIVE forEach(_, _, _, _, _)
forEach(f, i, e, status, hist) ==
    IF i > Len(f.entries) THEN [f |-> f, threw |-> FALSE]
    ELSE IF ~IsSome(f.entries[i]) THEN forEach(f, i + 1, e, status, hist)
    ELSE LET r == TryHandler(f, Get(f.entries[i]), e, status, hist)
         IN IF r.threw THEN r ELSE forEach(r.f, i + 1, e, status, hist)

\* The fields handleMessage reads and writes, as one record.
Client ==
    [eventCount |-> eventCount, lastEventTime |-> lastEventTime,
     kaguAssetCount |-> kaguAssetCount, assetStatus |-> assetStatus,
     deviceData |-> deviceData, historicalData |-> historicalData,
     returned |-> returned, messageHandlers |-> messageHandlers,
     delivered |-> delivered, issued |-> issued, conn |-> Conn,
     db |-> database]

\* A slip in storeEventToDatabase: no try/catch and no async, what the
\* collaborator throws leaves the function.
storeEventToDatabase_sync(db, eventData) ==
    CASE db.mode = "off" -> [db |-> db, threw |-> FALSE]
      [] db.mode = "broken" -> [db |-> db, threw |-> TRUE]
      [] db.mode = "on" -> [db |-> [db EXCEPT !.pending = @ + 1], threw |-> FALSE]

\* storeEventToDatabase(eventData), an async function, up to its await:
\* [db, threw].  A collaborator that is not connected ("off") is skipped, line
\* 500-503; one that throws when asked ("broken") is caught, lines 511-514;
\* one that is connected ("on") gets a storeEvent call, which is then in
\* flight.  Nothing leaves the function: what it returns is a promise.
storeEventToDatabase(db, eventData) ==
    CASE db.mode = "off" -> [db |-> db, threw |-> FALSE]
      [] db.mode = "broken" -> [db |-> db, threw |-> FALSE]
      [] db.mode = "on" -> [db |-> [db EXCEPT !.pending = @ + 1], threw |-> FALSE]

\* processEvent(eventData) with its handlers: the stores first, then the
\* store call of line 400, then the forEach; an exception that leaves the
\* store call or the forEach is caught by the catch of line 415, which
\* returns null.
processAndNotify(k, eventData, t) ==
    LET r == processEvent(k.assetStatus, k.deviceData, k.historicalData,
                          k.kaguAssetCount, eventData, t)
        stored == [k EXCEPT !.assetStatus = r.status, !.deviceData = r.device,
                            !.historicalData = r.hist, !.kaguAssetCount = r.kagu,
                            !.returned = r.returned]
    IN IF ~IsSome(r.returned) THEN stored
       ELSE LET d == storeEventToDatabase(k.db, Get(r.returned))
                n == forEach(Registry(k.messageHandlers, k.delivered, k.issued, k.conn),
                             1, Get(r.returned), r.status, r.hist)
            IN IF d.threw THEN [stored EXCEPT !.db = d.db, !.returned = None]
               ELSE [stored EXCEPT !.db = d.db,
                                   !.messageHandlers = Compact(n.f.entries),
                                   !.delivered = n.f.delivered,
                                   !.issued = n.f.issued,
                                   !.conn = n.f.conn,
                                   !.returned = IF n.threw THEN None ELSE @]

\* A slip: the batch is walked from its last element to its first.
RECURSIVE processBatch_backwards(_, _, _, _)
processBatch_backwards(k, events, i, t) ==
    IF i > Len(events) THEN k
    ELSE processAndNotify(processBatch_backwards(k, events, i + 1, t), events[i], t)

\* message.Events.forEach(event => this.processEvent(event)), lines 185-191,
\* from element i on.
RECURSIVE processBatch(_, _, _, _)
processBatch(k, events, i, t) ==
    IF i > Len(events) THEN k
    ELSE processBatch(processAndNotify(k, events[i], t), events, i + 1, t)

\* A message as JSON.parse reads it: a text that does not parse ("garbage"),
\* {Events: [...]} ("batch") or one envelope ("single").
Message(kind, events) == [kind |-> kind, events |-> events]

\* handleMessage(data) at wall-clock time t.
handleMessage(k, msg, t) ==
    IF msg.kind = "garbage" THEN k
    ELSE LET timed == [k EXCEPT !.lastEventTime = Some(ToISOString(Date(t)))]
         IN IF msg.kind = "batch" THEN processBatch(timed, msg.events, 1, t)
            ELSE LET eventData == msg.events[1]
                 IN IF eventData.hasEvent \/ eventData.Sequence # 0
                    THEN processAndNotify([timed EXCEPT !.eventCount = @ + 1],
                                          eventData, t)
                    ELSE timed

\* The variables take the fields of k.
Install(k) ==
    \E value \in {k} : LET kk == value IN
    /\ eventCount' = kk.eventCount
    /\ lastEventTime' = kk.lastEventTime
    /\ kaguAssetCount' = kk.kaguAssetCount
    /\ assetStatus' = kk.assetStatus
    /\ deviceData' = kk.deviceData
    /\ historicalData' = kk.historicalData
    /\ returned' = kk.returned
    /\ messageHandlers' = kk.messageHandlers
    /\ delivered' = kk.delivered
    /\ issued' = kk.issued
    /\ ws' = kk.conn.ws
    /\ sockets' = kk.conn.sockets
    /\ isConnected' = kk.conn.isConnected
    /\ reconnectAttempts' = kk.conn.reconnectAttempts
    /\ heartbeatTimer' = kk.conn.heartbeatTimer
    /\ intervals' = kk.conn.intervals
    /\ timeouts' = kk.conn.timeouts
    /\ lastHeartbeat' = kk.conn.lastHeartbeat
    /\ uncaught' = kk.conn.uncaught
    /\ database' = kk.db

\* The envelopes the upstream may send with Sequence n in the fan-out runs: a
\* report of a visible asset and one of another client's asset.
FanEnvelopes(n) ==
    { Envelope(n, Some(KAGU3331339), None, None, None),
      Envelope(n, Some(ZZZZ1), None, None, None) }

\* The batches of len envelopes numbered from n on.
RECURSIVE Batches(_, _)
Batches(n, len) ==
    IF len = 0 THEN { <<>> }
    ELSE { <<e>> \o rest : e \in FanEnvelopes(n), rest \in Batches(n + 1, len - 1) }

\* The messages the upstream may send next: one envelope, or a batch of two
\* or more while the run has envelopes left.
Messages ==
    { Message("single", <<e>>) : e \in FanEnvelopes(upstream.seq) }
    \cup UNION { { Message("batch", b) : b \in Batches(upstream.seq, len) } :
                 len \in 2..(MaxEvents + 1 - upstream.seq) }

\* A caller registers a handler: addMessageHandler(handler), lines 728-731.
Subscribe ==
    /\ issued < MaxHandlers
    /\ \E h \in Handlers(issued + 1) :
          LET f == addMessageHandler(
                      Registry(messageHandlers, delivered, issued, Conn), h)
          IN /\ messageHandlers' = Compact(f.entries)
             /\ delivered' = f.delivered
             /\ issued' = f.issued
    /\ UNCHANGED <<ingestVars, message, connVars, probe, database>>

\* A caller calls the handle it got for handler id, for the first time or again.
Unsubscribe ==
    /\ \E id \in 1..issued :
          LET f == removeHandler(
                      Registry(messageHandlers, delivered, issued, Conn), id)
          IN messageHandlers' = Compact(f.entries)
    /\ UNCHANGED <<ingestVars, message, delivered, issued, connVars, probe, database>>

\* The socket delivers a message: ws.on('message'), lines 68-71.
ReceiveMessage ==
    /\ upstream.seq <= MaxEvents
    /\ \E msg \in Messages :
          /\ message' = Some(msg)
          /\ upstream' = [upstream EXCEPT !.seq = @ + Len(msg.events)]
          /\ Install([handleMessage(Client, msg, now)
                        EXCEPT !.conn.lastHeartbeat = now])
    /\ UNCHANGED <<now, called, probe>>

NextFan == Subscribe \/ Unsubscribe \/ ReceiveMessage

SpecFan == Init /\ [][NextFan]_vars

----------------------------------------------------------------------------
(* Persistence: the store calls of processEvent and the collaborator *)

\* The /ws/kagu route registers its handler, which forwards the event:
\* part_003:216.
Attach ==
    /\ issued < MaxHandlers
    /\ LET f == addMessageHandler(
                   Registry(messageHandlers, delivered, issued, Conn),
                   Handler(issued + 1, "send", 0))
       IN /\ messageHandlers' = Compact(f.entries)
          /\ delivered' = f.delivered
          /\ issued' = f.issued
    /\ UNCHANGED <<ingestVars, message, connVars, probe, database>>

\* The collaborator comes up, goes down, or starts to throw when asked.
DatabaseTurns ==
    /\ \E mode \in {"off", "on", "broken"} \ {database.mode} :
          database' = [database EXCEPT !.mode = mode]
    /\ UNCHANGED <<ingestVars, fanVars, connVars, probe>>

\* A storeEvent call in flight ends: it resolves, the event stored, or it
\* rejects, and the catch of lines 511-514 logs the error.
StoreSettles ==
    /\ database.pending > 0
    /\ \E resolves \in BOOLEAN :
          database' = [database EXCEPT !.pending = @ - 1,
                                       !.stored = IF resolves THEN @ + 1 ELSE @]
    /\ UNCHANGED <<ingestVars, fanVars, connVars, probe>>

NextStore == Attach \/ ReceiveMessage \/ DatabaseTurns \/ StoreSettles

SpecStore == Init /\ [][NextStore]_vars

----------------------------------------------------------------------------
(* The connection manager: connect, the socket callbacks, the timers *)

ReconnectInterval == 5000

MaxReconnectAttempts == 10

HeartbeatInterval == 30000

\* this.maxEventCount
maxEventCount == 5000

\* this.lastEventId: '' from the constructor on, no statement assigns it.
lastEventId == ""

\* Sockets that are connecting, open or closing at one time.
MaxSockets == 2

\* Reconnect timers pending at one time.
MaxTimeouts == 2

\* Heartbeat intervals running at one time.
MaxIntervals == 2

\* Calls of connect() and disconnect() from outside in one run.
MaxCalls == 2

\* Pings sent on one socket.
MaxPings == 1

\* A socket of the ws library: its readyState, whether an 'error' event is due
\* before its 'close', the messages sent on it with send(), in order, and how
\* many pings were sent on it.
Socket(readyState) ==
    [readyState |-> readyState, erring |-> FALSE, requests |-> <<>>, pings |-> 0]

\* The sockets that still emit events.
Live(socks) == { s \in DOMAIN socks : socks[s].readyState # "CLOSED" }

\* The number of the next socket created: the least one not in use.
NewId(used) == CHOOSE n \in 1..(Cardinality(used) + 1) : n \notin used

\* The program holds sockets by reference; the numbers are the model's.  The
\* sockets are kept in one order, so that two states that differ in the
\* numbering only are one state: by readyState, then by what else they hold.
SocketRank(sock) ==
    (CASE sock.readyState = "CONNECTING" -> 0
       [] sock.readyState = "OPEN" -> 1
       [] sock.readyState = "CLOSING" -> 2
       [] sock.readyState = "CLOSED" -> 3) * 100
    + (IF sock.erring THEN 50 ELSE 0) + 10 * Len(sock.requests) + sock.pings

\* A closed socket that no field refers to is garbage; the others are
\* numbered again from 1, in the order of SocketRank.
Collect(c) ==
    LET kept == { s \in DOMAIN c.sockets :
                    c.sockets[s].readyState # "CLOSED" \/ c.ws = Some(s) }
        Key(s) == SocketRank(c.sockets[s]) * 2 + (IF c.ws = Some(s) THEN 0 ELSE 1)
        Place(s) == 1 + Cardinality({ u \in kept :
                          Key(u) < Key(s) \/ (Key(u) = Key(s) /\ u < s) })
        At(i) == CHOOSE s \in kept : Place(s) = i
    IN [c EXCEPT !.sockets = [i \in 1..Cardinality(kept) |-> c.sockets[At(i)]],
                 !.ws = IF IsSome(c.ws) THEN Some(Place(Get(c.ws))) ELSE None]

\* seq, ascending, with delay put in.
Insert(seq, delay) ==
    LET k == Cardinality({ i \in DOMAIN seq : seq[i] <= delay })
    IN SubSeq(seq, 1, k) \o <<delay>> \o SubSeq(seq, k + 1, Len(seq))

\* A slip in scheduleReconnect: the exponent is the number of the attempt, not
\* one less.
scheduleReconnect_steep(c) ==
    IF c.reconnectAttempts < MaxReconnectAttempts
    THEN LET attempts == c.reconnectAttempts + 1
             delay == ReconnectInterval * 2 ^ attempts
         IN [c EXCEPT !.reconnectAttempts = attempts,
                      !.timeouts = Insert(@, delay)]
    ELSE c

\* scheduleReconnect(): the setTimeout is kept as its delay.
scheduleReconnect(c) ==
    IF c.reconnectAttempts < MaxReconnectAttempts
    THEN LET attempts == c.reconnectAttempts + 1
             delay == ReconnectInterval * 2 ^ (attempts - 1)
         IN [c EXCEPT !.reconnectAttempts = attempts,
                      !.timeouts = Insert(@, delay)]
    ELSE c

\* connect(): new WebSocket(...) either throws, and the catch schedules a
\* reconnect, or returns a connecting socket that this.ws is set to.
connect(c, throws) ==
    IF throws THEN scheduleReconnect(c)
    ELSE LET s == NewId(DOMAIN c.sockets)
         IN [c EXCEPT !.sockets = MapSet(@, s, Socket("CONNECTING")),
                      !.ws = Some(s)]

\* startHeartbeat(): setInterval, the interval stored over the one stored
\* before, which goes on running.
startHeartbeat(c) ==
    [c EXCEPT !.intervals = @ + 1, !.heartbeatTimer = Some("interval")]

\* sendMessage(message): this.ws.readyState of a null this.ws throws
\* TypeError, outside the try of line 717.
sendMessage(c, msg) ==
    IF ~c.isConnected THEN c
    ELSE IF ~IsSome(c.ws) THEN [c EXCEPT !.uncaught = TRUE]
    ELSE IF c.sockets[Get(c.ws)].readyState = "OPEN"
    THEN [c EXCEPT !.sockets[Get(c.ws)].requests = Append(@, msg)]
    ELSE c

\* The message sendSubscriptionRequest builds, lines 131-139.
getEventsMessage ==
    [GetEvents |-> [EventType |-> "all",
                    EventPartition |-> 1,
                    PrecedingEventID |-> lastEventId,
                    FollowingEventID |-> None,
                    MaxEventCount |-> maxEventCount]]

\* sendSubscriptionRequest()
sendSubscriptionRequest(c) == sendMessage(c, getEventsMessage)

\* sendPing(): this.ws.readyState of a null this.ws throws TypeError.
sendPing(c) ==
    IF ~c.isConnected THEN c
    ELSE IF ~IsSome(c.ws) THEN [c EXCEPT !.uncaught = TRUE]
    ELSE IF c.sockets[Get(c.ws)].readyState = "OPEN"
    THEN [c EXCEPT !.sockets[Get(c.ws)].pings = @ + 1]
    ELSE c

\* A slip in the open handler: the request is sent before isConnected is set,
\* and sendMessage refuses it.
OnOpen_early(c, s) ==
    LET opened == [c EXCEPT !.sockets[s].readyState = "OPEN",
                            !.reconnectAttempts = 0]
    IN [sendSubscriptionRequest(startHeartbeat(opened)) EXCEPT !.isConnected = TRUE]

\* ws.on('open'), lines 57-66, for socket s; the two counters of line 60-61
\* are reset by the action.
OnOpen(c, s) ==
    LET opened == [c EXCEPT !.sockets[s].readyState = "OPEN",
                            !.isConnected = TRUE,
                            !.reconnectAttempts = 0]
    IN sendSubscriptionRequest(startHeartbeat(opened))

\* A slip in the error handler: it schedules a reconnect, as the close
\* handler does.
OnError_reschedules(c, s) ==
    scheduleReconnect(
        stopHeartbeat([c EXCEPT !.sockets[s].readyState = "CLOSING",
                                !.sockets[s].erring = FALSE,
                                !.isConnected = FALSE]))

\* ws.on('error'), lines 80-84, for socket s: the ws library emits 'close'
\* after 'error'.
OnError(c, s) ==
    stopHeartbeat([c EXCEPT !.sockets[s].readyState = "CLOSING",
                            !.sockets[s].erring = FALSE,
                            !.isConnected = FALSE])

\* ws.on('close'), lines 73-78, for socket s.
OnClose(c, s) ==
    scheduleReconnect(
        stopHeartbeat([c EXCEPT !.sockets[s].readyState = "CLOSED",
                                !.isConnected = FALSE]))

\* A slip in the heartbeat: the traffic is stale from 2 intervals on.
OnHeartbeat_atLeast(c, t) ==
    IF t - c.lastHeartbeat >= HeartbeatInterval * 2
    THEN IF IsSome(c.ws)
         THEN [c EXCEPT !.sockets = CloseSocket(@, Get(c.ws))]
         ELSE [c EXCEPT !.uncaught = TRUE]
    ELSE IF c.isConnected THEN sendPing(c)
    ELSE c

\* The callback of startHeartbeat's setInterval, lines 108-113, at time t.
\* this.ws.close() of a null this.ws throws TypeError.
OnHeartbeat(c, t) ==
    IF t - c.lastHeartbeat > HeartbeatInterval * 2
    THEN IF IsSome(c.ws)
         THEN [c EXCEPT !.sockets = CloseSocket(@, Get(c.ws))]
         ELSE [c EXCEPT !.uncaught = TRUE]
    ELSE IF c.isConnected THEN sendPing(c)
    ELSE c

\* getConnectionStatus()
getConnectionStatus(k) ==
    [connected |-> k.conn.isConnected,
     reconnectAttempts |-> k.conn.reconnectAttempts,
     lastHeartbeat |-> k.conn.lastHeartbeat,
     assetsTracked |-> Cardinality(DOMAIN k.deviceData),
     totalEventsReceived |-> k.eventCount,
     kaguEventsProcessed |-> k.kaguAssetCount,
     lastEventTime |-> k.lastEventTime]

\* The connection fields take the fields of c, the garbage collected.
InstallConn(c) ==
    \E value \in {c} : \E d \in {Collect(value)} :
    /\ ws' = d.ws
    /\ sockets' = d.sockets
    /\ isConnected' = d.isConnected
    /\ reconnectAttempts' = d.reconnectAttempts
    /\ heartbeatTimer' = d.heartbeatTimer
    /\ intervals' = d.intervals
    /\ timeouts' = d.timeouts
    /\ lastHeartbeat' = d.lastHeartbeat
    /\ uncaught' = d.uncaught

\* The bounds of the run leave room for one more socket and one more timer.
Room ==
    /\ Cardinality(Live(sockets)) < MaxSockets
    /\ Len(timeouts) < MaxTimeouts

\* timeouts without its i-th element.
Without(seq, i) == SubSeq(seq, 1, i - 1) \o SubSeq(seq, i + 1, Len(seq))

\* connect() is called from outside: at start-up (part_003:351) or later.
Connect ==
    /\ ~uncaught
    /\ called.n < MaxCalls
    /\ Room
    /\ \E throws \in BOOLEAN : InstallConn(connect(Conn, throws))
    /\ called' = [n |-> called.n + 1, last |-> "connect"]
    /\ UNCHANGED <<ingestVars, fanVars, probe, database>>

\* A slip in disconnect(): line 864 is left out, the handlers stay.
Disconnect_keepsHandlers ==
    /\ ~uncaught
    /\ called.n < MaxCalls
    /\ InstallConn(disconnect(Conn))
    /\ called' = [n |-> called.n + 1, last |-> "disconnect"]
    /\ UNCHANGED <<ingestVars, fanVars, probe, database>>

\* disconnect() is called from outside (part_003:372).
Disconnect ==
    /\ ~uncaught
    /\ called.n < MaxCalls
    /\ InstallConn(disconnect(Conn))
    /\ messageHandlers' = <<>>
    /\ called' = [n |-> called.n + 1, last |-> "disconnect"]
    /\ UNCHANGED <<ingestVars, message, delivered, issued, probe, database>>

\* A reconnect timer fires: connect(), lines 98-100.
TimeoutFires ==
    /\ ~uncaught
    /\ Cardinality(Live(sockets)) < MaxSockets
    /\ \E i \in DOMAIN timeouts, throws \in BOOLEAN :
          InstallConn(connect([Conn EXCEPT !.timeouts = Without(@, i)], throws))
    /\ UNCHANGED <<ingestVars, fanVars, called, probe, database>>

\* A slip in the open handler: the stores are emptied with the counters.
SocketOpen_clearsStores ==
    /\ ~uncaught
    /\ intervals < MaxIntervals
    /\ \E s \in DOMAIN sockets :
          /\ sockets[s].readyState = "CONNECTING"
          /\ InstallConn(OnOpen(Conn, s))
    /\ eventCount' = 0
    /\ kaguAssetCount' = 0
    /\ assetStatus' = <<>>
    /\ deviceData' = <<>>
    /\ historicalData' = <<>>
    /\ UNCHANGED <<now, upstream, lastEventTime, returned, fanVars, called,
                   probe, database>>

\* A connecting socket opens.
SocketOpen ==
    /\ ~uncaught
    /\ intervals < MaxIntervals
    /\ \E s \in DOMAIN sockets :
          /\ sockets[s].readyState = "CONNECTING"
          /\ InstallConn(OnOpen(Conn, s))
    /\ eventCount' = 0
    /\ kaguAssetCount' = 0
    /\ UNCHANGED <<now, upstream, lastEventTime, assetStatus, deviceData,
                   historicalData, returned, fanVars, called, probe, database>>

\* A socket fails, while connecting or when open, or reports that it was
\* closed before it was open.
SocketError ==
    /\ ~uncaught
    /\ \E s \in DOMAIN sockets :
          /\ \/ sockets[s].readyState \in {"CONNECTING", "OPEN"}
             \/ sockets[s].erring
          /\ InstallConn(OnError(Conn, s))
    /\ UNCHANGED <<ingestVars, fanVars, called, probe, database>>

\* A socket is closed: by the upstream, after an error, or after close().
SocketClose ==
    /\ ~uncaught
    /\ Len(timeouts) < MaxTimeouts
    /\ \E s \in DOMAIN sockets :
          /\ sockets[s].readyState \in {"OPEN", "CLOSING"}
          /\ ~sockets[s].erring
          /\ InstallConn(OnClose(Conn, s))
    /\ UNCHANGED <<ingestVars, fanVars, called, probe, database>>

\* An open socket delivers a message no branch of handleMessage knows: ws.on(
\* 'message'), lines 68-71.
SocketMessage ==
    /\ ~uncaught
    /\ \E s \in DOMAIN sockets : sockets[s].readyState = "OPEN"
    /\ lastHeartbeat' = now
    /\ lastEventTime' = Some(ToISOString(Date(now)))
    /\ UNCHANGED <<now, upstream, eventCount, kaguAssetCount, assetStatus,
                   deviceData, historicalData, returned, fanVars, ws, sockets,
                   isConnected, reconnectAttempts, heartbeatTimer, intervals,
                   timeouts, uncaught, called, probe, database>>

\* A heartbeat interval fires.
HeartbeatFires ==
    /\ ~uncaught
    /\ intervals > 0
    /\ \A s \in DOMAIN sockets :
          OnHeartbeat(Conn, now).sockets[s].pings <= MaxPings
    /\ InstallConn(OnHeartbeat(Conn, now))
    /\ UNCHANGED <<ingestVars, fanVars, called, probe, database>>

NextConn ==
    \/ Connect \/ Disconnect \/ TimeoutFires
    \/ SocketOpen \/ SocketError \/ SocketClose \/ SocketMessage
    \/ HeartbeatFires

SpecConn == Init /\ [][NextConn]_vars

----------------------------------------------------------------------------
(* Handlers over disconnect() and connect(): the handlers of the /ws/kagu   *)
(* route, with the two calls made from outside at any time.                *)

\* connect() is called from outside after disconnect() was.
Restart ==
    /\ called.last = "disconnect"
    /\ Connect

NextDetach ==
    \/ Attach \/ Unsubscribe \/ ReceiveMessage
    \/ Disconnect \/ Restart

SpecDetach == Init /\ [][NextDetach]_vars

----------------------------------------------------------------------------
(* The connection manager as the server runs it: connect() is called once, *)
(* at start-up, every later attempt is a reconnect timer's; time passes.   *)

\* The instants the clock is read at in the heartbeat runs: one interval, two
\* intervals, and one millisecond more than two and than three intervals after
\* the start.
BeatClock ==
    { Start + HeartbeatInterval, Start + 2 * HeartbeatInterval,
      Start + 2 * HeartbeatInterval + 1, Start + 3 * HeartbeatInterval + 1 }

\* The server starts: orbcommClient.connect(), part_003:351.
Boot ==
    /\ called.n = 0
    /\ Connect

\* Time passes.
Elapse ==
    /\ ~uncaught
    /\ \E t \in BeatClock : t > now /\ now' = t
    /\ UNCHANGED <<upstream, eventCount, lastEventTime, kaguAssetCount,
                   assetStatus, deviceData, historicalData, returned,
                   fanVars, connVars, probe, database>>

NextBeat ==
    \/ Boot \/ TimeoutFires
    \/ SocketOpen \/ SocketError \/ SocketClose \/ SocketMessage
    \/ HeartbeatFires \/ Elapse

SpecBeat == Init /\ [][NextBeat]_vars

\* The event loop runs a timer that is due.
SpecBeatFair == SpecBeat /\ WF_vars(TimeoutFires)

----------------------------------------------------------------------------
(* Resuming: the socket is lost and opened again while events arrive; the  *)
(* upstream, asked for the events after the cursor it is sent, may send an *)
(* envelope it sent before.                                                *)

\* How many entries the ring of asset a holds.
RingLen(a) == IF a \in DOMAIN historicalData THEN Len(historicalData[a]) ELSE 0

\* An open socket delivers a report of asset KAGU3331339: a new envelope or
\* the one sent last, again.  ws.on('message'), lines 68-71.
Deliver ==
    /\ ~uncaught
    /\ \E s \in DOMAIN sockets : sockets[s].readyState = "OPEN"
    /\ RingLen(KAGU3331339) < MaxEvents
    /\ \E eventData \in
             {Envelope(upstream.seq, Some(KAGU3331339), None, None, None)}
             \cup (IF IsSome(upstream.last) THEN {Get(upstream.last)} ELSE {}) :
          /\ message' = Some(Message("single", <<eventData>>))
          /\ upstream' = IF eventData.Sequence = upstream.seq
                         THEN [seq |-> upstream.seq + 1, last |-> Some(eventData)]
                         ELSE upstream
          /\ Install([handleMessage(Client, Message("single", <<eventData>>), now)
                        EXCEPT !.conn.lastHeartbeat = now])
    /\ UNCHANGED <<now, called, probe>>

NextResume ==
    \/ Boot \/ TimeoutFires
    \/ SocketOpen \/ SocketError \/ SocketClose \/ HeartbeatFires
    \/ Attach \/ Deliver

SpecResume == Init /\ [][NextResume]_vars

----------------------------------------------------------------------------
(* The visibility rule on its own: validateClientAccess called with any id *)

\* The longest id made of Letters that is tried.
MaxIdLen == 5

\* The characters the ids tried are made of.
Letters == {"K", "A", "G", "U", "Z"}

\* A client the configuration does not know.
ACME == "ACME"

\* The ids tried: every text of Letters up to MaxIdLen, the allow-list, and
\* ids around the other two patterns.
ProbeIds ==
    UNION { [1..k -> Letters] : k \in 0..MaxIdLen }
    \cup Range(SpecificAssets)
    \cup { SZLU1, ZZZZ1, <<"S","Z","L","U">>, <<"S","Z","L">>,
           <<"T","R","I","U","1">>, <<"X","T","R","I","U","1">>,
           <<"s","z","l","u","1">> }

\* validateClientAccess(clientId, assetId) is called, once in a run: the
\* function reads no state, a second call shows nothing the first does not.
CheckAccess ==
    /\ probe = None
    /\ \E clientId \in ClientIds \cup {ACME}, assetId \in ProbeIds :
          probe' = Some([clientId |-> clientId, assetId |-> assetId,
                         value |-> validateClientAccess(clientId, assetId)])
    /\ UNCHANGED <<ingestVars, fanVars, connVars, database>>

NextAccess == CheckAccess

SpecAccess == Init /\ [][NextAccess]_vars

----------------------------------------------------------------------------
(* The normalizer on its own: transformOrbcommEvent called with an envelope *)

\* A geofence id.
G1 == <<"G","1">>

\* The envelopes the normalizer is called with: with and without Event; each
\* asset id absent, the empty text, or an id; EventDtm absent or an instant;
\* each coordinate absent, 0 or another number; GeofenceID absent or an id;
\* MessageData.Events absent, well-formed or with a null element.
RawEnvelopes ==
    { [hasEvent |-> hasEvent, Sequence |-> 1,
       reeferAssetId |-> reefer, lastAssetId |-> device,
       EventDtm |-> dtm, lat |-> lat, lon |-> lon,
       geofenceId |-> geofence, messageEvents |-> messageEvents] :
         hasEvent \in BOOLEAN,
         reefer \in {None, Some(<<>>), Some(KAGU3331339), Some(ZZZZ1)},
         device \in {None, Some(<<>>), Some(SZLU1)},
         dtm \in {None, Some(ToISOString(Date(Start - MsPerHour)))},
         lat \in {None, Some(0), Some(5)},
         lon \in {None, Some(0), Some(5)},
         geofence \in {None, Some(G1)},
         messageEvents \in {"absent", "objects", "holes"} }

\* transformOrbcommEvent(eventData) is called, once in a run: the function
\* reads no state but the clock.
Normalize ==
    /\ probe = None
    /\ \E eventData \in RawEnvelopes :
          probe' = Some([eventData |-> eventData,
                         value |-> transformOrbcommEvent(eventData, now)])
    /\ UNCHANGED <<ingestVars, fanVars, connVars, database>>

NextNormalize == Normalize

SpecNormalize == Init /\ [][NextNormalize]_vars

----------------------------------------------------------------------------
(* C15 *)

\* Whether the text id starts with the text pre.
StartsWith(id, pre) ==
    Len(id) >= Len(pre) /\ \A i \in 1..Len(pre) : id[i] = pre[i]

----------------------------------------------------------------------------
(* C16 *)

\* The asset ids of the entries of a listing.
ListedIds(listing) == { listing[i].assetId : i \in DOMAIN listing }

\* C16 (as claimed): every tracked asset that validateClientAccess admits for
\* KAGU is an entry of getAllAssetsForClient('KAGU') and of exactly one of the
\* online and offline listings.
C16_VisibleListed ==
    \A a \in DOMAIN deviceData :
        validateClientAccess("KAGU", a) =>
            LET on == ListedIds(getOnlineAssetsForClient(assetStatus, deviceData, "KAGU", now))
                off == ListedIds(getOfflineAssetsForClient(assetStatus, deviceData, "KAGU", now))
            IN /\ a \in ListedIds(getAllAssetsForClient(assetStatus, deviceData, "KAGU", now))
               /\ (a \in on) # (a \in off)

----------------------------------------------------------------------------
(* Helpers of the fan-out properties *)

\* Whether the step is a call of handleMessage in the fan-out runs.
IsMessageStep == upstream'.seq # upstream.seq

\* The ids of the handlers of a handler list.
HandlerIds(handlers) == { handlers[i].id : i \in DOMAIN handlers }

\* What a handler that is invoked for every accepted event of the envelopes
\* events[i..] is invoked with, the stores being updated by processEvent
\* envelope after envelope.
RECURSIVE ObservedIn(_, _, _, _, _, _, _)
ObservedIn(status, device, hist, kagu, events, i, t) ==
    IF i > Len(events) THEN <<>>
    ELSE LET r == processEvent(status, device, hist, kagu, events[i], t)
         IN (IF IsSome(r.returned)
             THEN << Observation(r.status, r.hist, Get(r.returned)) >>
             ELSE <<>>)
            \o ObservedIn(r.status, r.device, r.hist, r.kagu, events, i + 1, t)

\* The observations of the accepted events of the message of this step.
StepObserved ==
    ObservedIn(assetStatus, deviceData, historicalData, kaguAssetCount,
               Get(message').events, 1, now)

----------------------------------------------------------------------------
(* C11 *)

\* C11: a handler that throws changes nothing for anyone else.  A message
\* leaves the stores, the counters and the value processEvent returned last
\* exactly as it leaves them when no handler is registered at all, so no
\* exception cut processEvent or handleMessage short; and with a throwing
\* handler registered, every handler registered before and after the message
\* was invoked for every accepted event of the message, in order.
C11_ThrowIsolated ==
    [][ IsMessageStep =>
          LET bare == handleMessage([Client EXCEPT !.messageHandlers = <<>>],
                                    Get(message'), now)
          IN /\ assetStatus' = bare.assetStatus
             /\ deviceData' = bare.deviceData
             /\ historicalData' = bare.historicalData
             /\ kaguAssetCount' = bare.kaguAssetCount
             /\ eventCount' = bare.eventCount
             /\ lastEventTime' = bare.lastEventTime
             /\ returned' = bare.returned
             /\ (\E h \in Range(messageHandlers) : h.does = "throw") =>
                   \A g \in Range(messageHandlers) \cap Range(messageHandlers') :
                       delivered'[g.id] = delivered[g.id] \o StepObserved
      ]_vars

\* Three handlers are registered, the second one throws, and all three were
\* invoked for the event processEvent returned last.
C11_Witness ==
    /\ Len(messageHandlers) = 3
    /\ messageHandlers[2].does = "throw"
    /\ IsSome(returned)
    /\ \A i \in 1..3 :
          LET log == delivered[messageHandlers[i].id]
          IN log # <<>> /\ log[Len(log)].event = Get(returned)

----------------------------------------------------------------------------
(* C12 *)

\* C12 (as claimed): the handlers invoked for an event are those registered
\* when its delivery starts.  For a message of one accepted envelope: every
\* handler registered before the message is invoked exactly once, and a
\* handler registered during the delivery is not invoked.
C12_SnapshotDelivery ==
    [][ (IsMessageStep /\ Get(message').kind = "single" /\ IsSome(returned')) =>
          /\ \A h \in Range(messageHandlers) :
                Len(delivered'[h.id]) = Len(delivered[h.id]) + 1
          /\ \A id \in (issued + 1)..issued' : delivered'[id] = <<>>
      ]_vars

----------------------------------------------------------------------------
(* C13 *)

\* The Sequence number of the envelope an observation is of: the upstream
\* numbers its envelopes in the order it sends them.
ArrivalOf(obs) == obs.event.event.sequence

\* C13: every handler is invoked in arrival order: the events a handler was
\* invoked with have increasing arrival numbers (none twice, none out of
\* order, batch elements in array order); each of them was in the ring of its
\* asset and at its head when the handler was invoked, and the record of the
\* asset had counted the events up to it and none after it.  A handler that
\* stays registered over a message is invoked for each accepted event of it,
\* in the order of the message.
C13_ArrivalOrder ==
    /\ [] \A id \in 1..issued :
          LET log == delivered[id] IN
          /\ \A i, j \in DOMAIN log : i < j => ArrivalOf(log[i]) < ArrivalOf(log[j])
          /\ \A i \in DOMAIN log :
                LET ring == getHistoricalDataForAsset(historicalData,
                                                      log[i].event.event.assetId)
                IN /\ log[i].stored
                   /\ \E n \in DOMAIN ring : ring[n].event = log[i].event
                   /\ log[i].count =
                         Cardinality({ n \in DOMAIN ring :
                             ring[n].event.event.sequence <= ArrivalOf(log[i]) })
    /\ [][ IsMessageStep =>
             \A g \in Range(messageHandlers) \cap Range(messageHandlers') :
                 /\ delivered'[g.id] = delivered[g.id] \o StepObserved
                 /\ \A i \in DOMAIN StepObserved :
                       StepObserved[i].event.event =
                           Get(transformOrbcommEvent(
                                 Get(message').events[
                                     ArrivalOf(StepObserved[i]) - upstream.seq + 1],
                                 now))
       ]_vars

\* A handler was invoked for the two envelopes of one batch, the first one
\* first.
C13_Witness ==
    /\ IsSome(message)
    /\ Get(message).kind = "batch"
    /\ \E id \in 1..issued :
          /\ Len(delivered[id]) = 2
          /\ ArrivalOf(delivered[id][1]) = Get(message).events[1].Sequence
          /\ ArrivalOf(delivered[id][2]) = Get(message).events[2].Sequence

----------------------------------------------------------------------------
(* C14 *)

\* The handler list after the handle of handler id is called.
AfterHandle(id) ==
    Compact(removeHandler(Registry(messageHandlers, delivered, issued, Conn),
                          id).entries)

\* C14: the handle of a handler removes that handler and nothing else, and is
\* a no-op for a handler that is not registered (the handle was called
\* before); a handler that is not registered is invoked for no event and
\* stays unregistered; with no handler registered a message still puts every
\* accepted event into the stores and processEvent returns the accepted event.
C14_Unsubscribe ==
    /\ [] \A id \in 1..issued :
          /\ AfterHandle(id) = SelectSeq(messageHandlers, LAMBDA h : h.id # id)
          /\ id \notin HandlerIds(messageHandlers) => AfterHandle(id) = messageHandlers
    /\ [][ /\ \A id \in 1..issued :
                id \notin HandlerIds(messageHandlers) =>
                    /\ delivered'[id] = delivered[id]
                    /\ id \notin HandlerIds(messageHandlers')
           /\ (IsMessageStep /\ messageHandlers = <<>>) =>
                 /\ messageHandlers' = <<>>
                 /\ delivered' = delivered
                 /\ \A i \in DOMAIN StepObserved :
                       LET e == StepObserved[i].event
                           a == e.event.assetId
                       IN /\ a \in DOMAIN assetStatus'
                          /\ \E n \in DOMAIN historicalData'[a] :
                                historicalData'[a][n].event = e
                          /\ i = Len(StepObserved) => deviceData'[a] = e
                 /\ Get(message').kind = "single" =>
                       (IsSome(returned') <=> StepObserved # <<>>)
       ]_vars

\* A handler was invoked for the first envelope and then unsubscribed; another
\* one, still registered, was invoked for the second envelope too.
C14_Witness ==
    \E id \in 1..issued :
        /\ id \notin HandlerIds(messageHandlers)
        /\ Len(delivered[id]) = 1
        /\ \E h \in Range(messageHandlers) :
              /\ Len(delivered[h.id]) = 2
              /\ delivered[h.id][1] = delivered[id][1]

----------------------------------------------------------------------------
(* Helpers of the connection properties *)

\* What getConnectionStatus() returns in the state.
ConnectionStatus == getConnectionStatus(Client)

\* The step creates a socket: one more socket emits events after it.
SocketCreated == Cardinality(Live(sockets')) > Cardinality(Live(sockets))

\* The step is the 'close' event of a socket: one socket fewer emits events.
SocketLost == Cardinality(Live(sockets')) < Cardinality(Live(sockets))

\* The step is a call of connect() from outside.
IsConnectCall == called'.n = called.n + 1 /\ called'.last = "connect"

\* The timer lists a step can leave that sets no timer: a timer may fire.
TimersLeft == {timeouts} \cup { Without(timeouts, i) : i \in DOMAIN timeouts }

----------------------------------------------------------------------------
(* C17 *)

\* C17: the counter changes by being incremented by one or reset to 0; the
\* step that makes it k sets exactly one timer, of delay B * 2^(k-1) for the
\* base delay B, with k in 1..10 (B, 2B, 4B, 8B, 16B for k = 1..5), and no
\* other step sets a timer.
C17_BackoffDoubling ==
    [][ LET k == reconnectAttempts'
            B == ReconnectInterval
        IN
        /\ k \in {reconnectAttempts, reconnectAttempts + 1, 0}
        /\ k = reconnectAttempts + 1 =>
              /\ k \in 1..MaxReconnectAttempts
              /\ \E i \in DOMAIN timeouts' :
                    /\ timeouts'[i] = B * 2 ^ (k - 1)
                    /\ Without(timeouts', i) \in TimersLeft
              /\ k <= 5 =>
                    \E i \in DOMAIN timeouts' :
                        timeouts'[i] = <<B, 2 * B, 4 * B, 8 * B, 16 * B>>[k]
        /\ k # reconnectAttempts + 1 => timeouts' \in TimersLeft
      ]_vars

\* The fifth attempt in a row is scheduled, 80 seconds ahead, and nothing else.
C17_Witness ==
    /\ reconnectAttempts = 5
    /\ timeouts = <<16 * ReconnectInterval>>
    /\ Live(sockets) = {}

----------------------------------------------------------------------------
(* C18 *)

\* C18 (as claimed): when a socket is closed with the 10 attempts used up and
\* none of them pending, no timer is set and the status the manager reports
\* becomes 'failed', a status it did not report before the loss; from then
\* on, with no socket and no timer left, only a call of connect() from
\* outside creates a socket.
C18_FailedIsTerminal ==
    [][ /\ (reconnectAttempts = MaxReconnectAttempts /\ timeouts = <<>>
              /\ SocketLost) =>
              /\ timeouts' = timeouts
              /\ ConnectionStatus' # ConnectionStatus
        /\ (reconnectAttempts = MaxReconnectAttempts /\ timeouts = <<>>
              /\ Live(sockets) = {}
              /\ SocketCreated) => IsConnectCall
      ]_vars

----------------------------------------------------------------------------
(* C19 *)

\* C19 (as claimed): connect() called from outside while a socket is
\* connecting or open leaves the sockets, this.ws, the timers and the
\* connection fields as they are.
C19_ConnectIdempotent ==
    [][ (/\ IsConnectCall
         /\ \E s \in DOMAIN sockets :
               sockets[s].readyState \in {"CONNECTING", "OPEN"}) =>
           /\ sockets' = sockets
           /\ ws' = ws
           /\ intervals' = intervals
           /\ heartbeatTimer' = heartbeatTimer
           /\ timeouts' = timeouts
           /\ isConnected' = isConnected
           /\ reconnectAttempts' = reconnectAttempts
      ]_vars

----------------------------------------------------------------------------
(* C20 *)

\* C20 (as claimed): while disconnect() is the last call from outside, no
\* heartbeat interval runs, no reconnect timer is pending and no step creates
\* a socket; a second disconnect() changes nothing.
C20_DisconnectStops ==
    /\ [] (called.last = "disconnect" =>
              /\ intervals = 0
              /\ heartbeatTimer = None
              /\ timeouts = <<>>)
    /\ [][ (called.last = "disconnect" /\ called' = called) => ~SocketCreated ]_vars
    /\ [][ (called.last = "disconnect" /\ called'.last = "disconnect"
              /\ called'.n = called.n + 1) =>
                 /\ sockets' = sockets
                 /\ ws' = ws
                 /\ isConnected' = isConnected
                 /\ timeouts' = timeouts
                 /\ messageHandlers' = messageHandlers ]_vars

----------------------------------------------------------------------------
(* C21 *)

\* The sockets that are open.
OpenSockets(socks) == { s \in DOMAIN socks : socks[s].readyState = "OPEN" }

\* The step is the 'open' event of a socket.
IsOpenStep == Cardinality(OpenSockets(sockets')) > Cardinality(OpenSockets(sockets))

\* The messages sent with send() on all the sockets together.
RECURSIVE SentOn(_, _)
SentOn(socks, i) ==
    IF i > Len(socks) THEN <<>> ELSE socks[i].requests \o SentOn(socks, i + 1)

----------------------------------------------------------------------------
(* C22 *)

\* No message came in for more than two heartbeat intervals.
Stale == now - lastHeartbeat > 2 * HeartbeatInterval

\* The pings sent on all the sockets together.
RECURSIVE PingsOn(_, _)
PingsOn(socks, i) ==
    IF i > Len(socks) THEN 0 ELSE socks[i].pings + PingsOn(socks, i + 1)

\* C22: while a heartbeat interval runs the manager is connected and this.ws
\* is its socket; the tick that comes now closes this.ws and sends no ping
\* when the last message is more than 2 * heartbeatInterval old, and sends one
\* ping on the open this.ws and closes nothing otherwise; no step sends a ping
\* on stale traffic; the 'close' of a socket, with attempts left, schedules a
\* reconnect; lastHeartbeat is the time of the last message that came in.
C22_HeartbeatTimeout ==
    /\ [] ((intervals > 0 /\ ~uncaught) =>
             /\ isConnected
             /\ IsSome(ws)
             /\ LET s == Get(ws)
                    c == OnHeartbeat(Conn, now)
                IN /\ ~c.uncaught
                   /\ Stale =>
                         /\ c.sockets[s].readyState = "CLOSING"
                         /\ c.sockets[s].pings = sockets[s].pings
                   /\ ~Stale =>
                         /\ sockets[s].readyState = "OPEN"
                         /\ c.sockets[s].readyState = "OPEN"
                         /\ c.sockets[s].pings = sockets[s].pings + 1)
    /\ [] (IsSome(lastEventTime) => lastHeartbeat = Get(lastEventTime).ms)
    /\ [][ /\ PingsOn(sockets', 1) > PingsOn(sockets, 1) => ~Stale
           /\ (SocketLost /\ reconnectAttempts < MaxReconnectAttempts) =>
                 /\ ~isConnected'
                 /\ reconnectAttempts' = reconnectAttempts + 1
                 /\ Len(timeouts') = Len(timeouts) + 1
         ]_vars

\* A message came in one interval after the start and a ping went out; more
\* than two intervals later a tick found nothing newer and closed the socket.
C22_Witness ==
    /\ isConnected
    /\ IsSome(ws)
    /\ sockets[Get(ws)].readyState = "CLOSING"
    /\ sockets[Get(ws)].pings = 1
    /\ lastHeartbeat = Start + HeartbeatInterval
    /\ Stale

----------------------------------------------------------------------------
(* C23 *)

\* The step is a failed try to create the socket: connect() ran, at start-up
\* or from a timer, and no socket came of it.
IsFailedCreate ==
    /\ IsConnectCall \/ (Len(timeouts) = 1 /\ Live(sockets) = {} /\ timeouts' # timeouts)
    /\ Live(sockets') = {}

\* C23: nothing is thrown; once connect() was called, either a socket is
\* alive and no reconnect is scheduled, or none is alive, the manager is not
\* connected and exactly one reconnect is scheduled, or the 10 attempts are
\* used up; the step that loses the socket or fails to create it, with
\* attempts left, schedules that one reconnect and counts it; and a reconnect
\* that is scheduled is made: the timer fires and connect() runs.
C23_LossIsRetried ==
    /\ [] ~uncaught
    /\ [] (called.n > 0 =>
             \/ Live(sockets) # {} /\ timeouts = <<>>
             \/ /\ Live(sockets) = {}
                /\ ~isConnected
                /\ \/ Len(timeouts) = 1 /\ reconnectAttempts >= 1
                   \/ timeouts = <<>> /\ reconnectAttempts = MaxReconnectAttempts)
    /\ [][ ((SocketLost \/ IsFailedCreate)
              /\ reconnectAttempts < MaxReconnectAttempts) =>
                 /\ ~isConnected'
                 /\ reconnectAttempts' = reconnectAttempts + 1
                 /\ Len(timeouts') = 1
         ]_vars
    /\ \A k \in 1..MaxReconnectAttempts :
          (Live(sockets) = {} /\ reconnectAttempts = k /\ timeouts # <<>>)
             ~> (Live(sockets) # {} \/ reconnectAttempts # k \/ timeouts = <<>>)

\* A connection that was open and delivered a message is lost: the manager is
\* not connected and the first reconnect is scheduled.
C23_Witness ==
    /\ IsSome(lastEventTime)
    /\ Live(sockets) = {}
    /\ ~isConnected
    /\ reconnectAttempts = 1
    /\ timeouts = <<ReconnectInterval>>

----------------------------------------------------------------------------
(* C24 *)

\* C24 (as claimed): a message whose envelope is skipped, processEvent
\* returning null for it, leaves the presence records, the current data and
\* the history rings as they were.
C24_SkippedChangesNothing ==
    [][ (IsHandleStep /\ ~IsSome(returned')) =>
           /\ assetStatus' = assetStatus
           /\ deviceData' = deviceData
           /\ historicalData' = historicalData
      ]_vars

----------------------------------------------------------------------------
(* C25 *)

\* The client after events[i], events[i+1], ... were received at time t as
\* messages of one envelope each.
RECURSIVE AsSingles(_, _, _, _)
AsSingles(k, events, i, t) ==
    IF i > Len(events) THEN k
    ELSE AsSingles(handleMessage(k, Message("single", <<events[i]>>), t),
                   events, i + 1, t)

\* C25 (as claimed): a batch message leaves the presence records, the current
\* data, the history rings, the counters of received events and what every
\* handler was invoked with as the same envelopes do when received one by one.
C25_BatchAsSingles ==
    [][ (IsMessageStep /\ message'[1].kind = "batch") =>
           LET k == AsSingles(Client, message'[1].events, 1, now) IN
           /\ assetStatus' = k.assetStatus
           /\ deviceData' = k.deviceData
           /\ historicalData' = k.historicalData
           /\ delivered' = k.delivered
           /\ messageHandlers' = k.messageHandlers
           /\ kaguAssetCount' = k.kaguAssetCount
           /\ eventCount' = k.eventCount
      ]_vars

----------------------------------------------------------------------------
(* C26 *)

\* The envelope the normalizer was called with, and what it returned.
Raw == Get(probe).eventData

Normalized == Get(probe).value

\* The asset id of an envelope: ReeferData.AssetID when it is there and not
\* empty, else DeviceData.LastAssetID when it is; null when neither is.
ResolvedId(e) ==
    IF ~e.hasEvent THEN None
    ELSE IF IsSome(e.reeferAssetId) /\ Get(e.reeferAssetId) # <<>> THEN e.reeferAssetId
    ELSE IF IsSome(e.lastAssetId) /\ Get(e.lastAssetId) # <<>> THEN e.lastAssetId
    ELSE None

\* processEvent on the envelope leaves the stores and the counter alone and
\* returns null.
IsDropped(e) ==
    LET r == processEvent(assetStatus, deviceData, historicalData,
                          kaguAssetCount, e, now)
    IN /\ r.status = assetStatus
       /\ r.device = deviceData
       /\ r.hist = historicalData
       /\ r.kagu = kaguAssetCount
       /\ r.returned = None

----------------------------------------------------------------------------
(* C27 *)

\* C27 (as claimed): hasGPS is true exactly when both coordinates are in the
\* envelope, 0 included; hasReeferData and hasGeofenceData are true exactly
\* when the reefer's asset id and the geofence id are.
C27_PresenceNotTruthiness ==
    (IsSome(probe) /\ IsSome(Normalized)) =>
        /\ Get(Normalized).gpsData.hasGPS <=> (IsSome(Raw.lat) /\ IsSome(Raw.lon))
        /\ Get(Normalized).hasReeferData <=>
              (IsSome(Raw.reeferAssetId) /\ Get(Raw.reeferAssetId) # <<>>)
        /\ Get(Normalized).hasGeofenceData <=>
              (IsSome(Raw.geofenceId) /\ Get(Raw.geofenceId) # <<>>)

----------------------------------------------------------------------------
(* C28 *)

\* The client with a storage collaborator that is not connected.
ClientWithoutStore == [Client EXCEPT !.db.mode = "off"]

\* C28: whatever the collaborator does, nothing is thrown; a message leaves
\* the presence records, the current data, the history rings, the counters,
\* the value processEvent returned and what every handler was invoked with
\* exactly as it leaves them when the collaborator is not connected, every
\* handler having been invoked for every accepted event; a connected
\* collaborator has one more call in flight per accepted event, and none of
\* them has ended when the message is done; the end of a call, resolved or
\* rejected, changes nothing in the client.
C28_FireAndForget ==
    /\ [] ~uncaught
    /\ [][ IsMessageStep =>
              LET k == handleMessage(ClientWithoutStore, Get(message'), now) IN
              /\ assetStatus' = k.assetStatus
              /\ deviceData' = k.deviceData
              /\ historicalData' = k.historicalData
              /\ kaguAssetCount' = k.kaguAssetCount
              /\ eventCount' = k.eventCount
              /\ returned' = k.returned
              /\ delivered' = k.delivered
              /\ \A i \in DOMAIN messageHandlers :
                    delivered'[messageHandlers[i].id]
                       = delivered[messageHandlers[i].id] \o StepObserved
              /\ database'.mode = database.mode
              /\ database'.stored = database.stored
              /\ database'.pending = database.pending
                    + (IF database.mode = "on" THEN Len(StepObserved) ELSE 0)
         ]_vars
    /\ [][ (~IsMessageStep /\ database' # database) =>
              UNCHANGED <<ingestVars, fanVars, connVars>> ]_vars

\* Two messages were received, processed and delivered to a handler while the
\* store call of the first was still in flight.
C28_Witness ==
    /\ database.pending = 2
    /\ eventCount = 2
    /\ issued >= 1
    /\ Len(delivered[1]) = 2
    /\ KAGU3331339 \in DOMAIN historicalData
    /\ Len(historicalData[KAGU3331339]) = 2

----------------------------------------------------------------------------
(* C29 *)

\* The clients a listing is asked for: the configured one and another.
AskingClients == ClientIds \cup {ACME}

\* C29: for every client, filterAssetsForClient keeps the envelope the
\* upstream sent last exactly when the envelope has a resolvable asset id that
\* validateClientAccess admits for the client, and getAssetsForClient returns
\* exactly the tracked assets validateClientAccess admits for the client, each
\* once.
C29_FilterAgrees ==
    \A clientId \in AskingClients :
        /\ IsSome(upstream.last) =>
              LET e == Get(upstream.last)
                  kept == filterAssetsForClient(clientId, <<e>>)
              IN /\ kept \in { <<>>, <<e>> }
                 /\ kept = <<e>> <=>
                       /\ IsSome(ResolvedId(e))
                       /\ validateClientAccess(clientId, Get(ResolvedId(e)))
        /\ LET listed == getAssetsForClient(deviceData, clientId) IN
              /\ { listed[i].assetId : i \in DOMAIN listed }
                    = { a \in DOMAIN deviceData : validateClientAccess(clientId, a) }
              /\ \A i, j \in DOMAIN listed :
                    listed[i].assetId = listed[j].assetId => i = j
              /\ \A i \in DOMAIN listed :
                    listed[i].data = deviceData[listed[i].assetId]

\* An asset is tracked by its device id, the last envelope was another
\* client's behind a visible device id and is not kept, and the configured
\* client is given the tracked asset, the other client none.
C29_Witness ==
    /\ DOMAIN deviceData = {SZLU1}
    /\ IsSome(upstream.last)
    /\ Get(upstream.last).reeferAssetId = Some(ZZZZ1)
    /\ Get(upstream.last).lastAssetId = Some(KAGU3331339)
    /\ filterAssetsForClient("KAGU", <<Get(upstream.last)>>) = <<>>
    /\ Len(getAssetsForClient(deviceData, "KAGU")) = 1
    /\ getAssetsForClient(deviceData, ACME) = <<>>

----------------------------------------------------------------------------
(* C30 *)

\* C30: in every reachable state an asset has a presence record exactly when
\* it has current data and exactly when it has a history ring, no ring is
\* empty, and getAssetData of a tracked asset is the event at the head of its
\* ring; and every accepted event is, right after its message, what
\* getAssetData returns for its asset, whatever its event time.
C30_StoresCoverSameAssets ==
    /\ [] /\ DOMAIN assetStatus = DOMAIN deviceData
          /\ DOMAIN deviceData = DOMAIN historicalData
          /\ \A a \in AllAssets :
                IF a \in DOMAIN historicalData
                THEN /\ Len(historicalData[a]) >= 1
                     /\ getAssetData(deviceData, a) = Some(historicalData[a][1].event)
                ELSE getAssetData(deviceData, a) = None
    /\ [][ Accepted =>
              /\ StepAsset \in DOMAIN assetStatus'
              /\ getAssetData(deviceData', StepAsset) = Some(StepEvent)
              /\ historicalData'[StepAsset][1].event = StepEvent ]_vars

\* An asset whose current data is older by event time than the event received
\* before it, which is second in its ring.
C30_Witness ==
    \E a \in DOMAIN historicalData :
        /\ Len(historicalData[a]) = 2
        /\ a \in DOMAIN assetStatus
        /\ getAssetData(deviceData, a) = Some(historicalData[a][1].event)
        /\ DateGT(ParseDate(historicalData[a][2].event.lastUpdate),
                  ParseDate(historicalData[a][1].event.lastUpdate))

----------------------------------------------------------------------------
(* C31 *)

\* C31: for every asset with a presence record, the record's eventCount is
\* the number of events appended to the asset's history ring, so the ring
\* holds min(eventCount, 100) entries: no event is counted without being
\* stored, none is stored without being counted.
C31_CountEqualsAppended ==
    \A a \in DOMAIN assetStatus :
        /\ a \in DOMAIN historicalData
        /\ Len(historicalData[a]) = Min(assetStatus[a].eventCount, HistoryCap)

----------------------------------------------------------------------------
(* C32 *)

\* The envelope has an asset id and client KAGU may not see it.
Invisible(e) ==
    /\ IsSome(ResolvedId(e))
    /\ ~validateClientAccess("KAGU", Get(ResolvedId(e)))

\* The positions of the envelopes of the message that are not invisible.
VisibleIn(msg) == { i \in DOMAIN msg.events : ~Invisible(msg.events[i]) }

\* C32: an envelope whose asset id client KAGU may not see changes nothing.
\* A message of such envelopes only leaves the presence records (lastSeen
\* with them), the current data, the history rings, the KAGU counter, the
\* store calls in flight and every handler's deliveries as they were, and
\* processEvent returned null; in a message that mixes them with visible
\* envelopes, the handlers and the database collaborator get the visible
\* ones only, and no tracked asset is one client KAGU may not see.
C32_InvisibleChangesNothing ==
    /\ [] \A a \in DOMAIN assetStatus \cup DOMAIN deviceData \cup DOMAIN historicalData :
             validateClientAccess("KAGU", a)
    /\ [][ IsMessageStep =>
              LET msg == Get(message') IN
              /\ \A i \in DOMAIN msg.events :
                    Invisible(msg.events[i]) =>
                       processEvent(assetStatus', deviceData', historicalData',
                                    kaguAssetCount', msg.events[i], now)
                          = [status |-> assetStatus', device |-> deviceData',
                             hist |-> historicalData', kagu |-> kaguAssetCount',
                             returned |-> None]
              /\ VisibleIn(msg) = {} =>
                    /\ UNCHANGED <<assetStatus, deviceData, historicalData,
                                   kaguAssetCount, delivered, database>>
                    /\ returned' = None
              /\ \A i \in DOMAIN messageHandlers :
                    LET id == messageHandlers[i].id IN
                    /\ Len(delivered'[id]) = Len(delivered[id]) + Cardinality(VisibleIn(msg))
                    /\ \A j \in DOMAIN delivered'[id] :
                          validateClientAccess("KAGU", delivered'[id][j].event.event.assetId)
              /\ database'.pending - database.pending
                    = IF database.mode = "on" THEN Cardinality(VisibleIn(msg)) ELSE 0
          ]_vars

\* An asset is tracked, a handler is registered and the collaborator is
\* connected; then an envelope of another client's asset came alone: the one
\* delivery and the one store call are those of the tracked asset's event.
C32_Witness ==
    /\ IsSome(message)
    /\ Get(message).kind = "single"
    /\ Invisible(Get(message).events[1])
    /\ upstream.seq = 3
    /\ DOMAIN deviceData = {KAGU3331339}
    /\ assetStatus[KAGU3331339].eventCount = 1
    /\ Len(historicalData[KAGU3331339]) = 1
    /\ issued >= 1
    /\ Len(messageHandlers) >= 1
    /\ Len(delivered[1]) = 1
    /\ database.mode = "on"
    /\ database.pending = 1
    /\ returned = None

----------------------------------------------------------------------------
(* C33 *)

\* The sockets that are connecting or open; every socket keeps the handlers
\* connect() attached to it.
Attached == { s \in DOMAIN sockets : sockets[s].readyState \in {"CONNECTING", "OPEN"} }

\* C33: at any time at most one upstream socket is connecting or open, at
\* most one heartbeat timer runs, at most one reconnect timer is pending, and
\* isConnected is true exactly when the current socket is open.
C33_OneOfEach ==
    /\ Cardinality(Attached) <= 1
    /\ intervals <= 1
    /\ Len(timeouts) <= 1
    /\ isConnected <=> (IsSome(ws) /\ sockets[Get(ws)].readyState = "OPEN")

----------------------------------------------------------------------------
(* C34 *)

\* C34: reconnectAttempts is always one of 0..10; the step that increments
\* it sets a reconnect timer; only the 'open' event of a socket decreases it,
\* to 0, a call of connect() or disconnect() from outside never does; and
\* once it is 10, until a socket opens, it stays 10 and no timer is set,
\* whoever called connect().
C34_BudgetKept ==
    /\ [] (reconnectAttempts \in 0..MaxReconnectAttempts)
    /\ [][ /\ reconnectAttempts' > reconnectAttempts =>
                 /\ reconnectAttempts' = reconnectAttempts + 1
                 /\ \E i \in DOMAIN timeouts' :
                       /\ timeouts'[i] = ReconnectInterval * 2 ^ reconnectAttempts
                       /\ Without(timeouts', i) \in TimersLeft
           /\ reconnectAttempts' < reconnectAttempts =>
                 /\ IsOpenStep
                 /\ reconnectAttempts' = 0
           /\ called' # called => reconnectAttempts' >= reconnectAttempts
           /\ (reconnectAttempts = MaxReconnectAttempts /\ ~IsOpenStep) =>
                 /\ reconnectAttempts' = MaxReconnectAttempts
                 /\ timeouts' \in TimersLeft
         ]_vars

\* The 10 attempts are used up, connect() was called again from outside, its
\* socket is gone too, and no timer is pending.
C34_Witness ==
    /\ reconnectAttempts = MaxReconnectAttempts
    /\ called = [n |-> 2, last |-> "connect"]
    /\ timeouts = <<>>
    /\ Live(sockets) = {}
    /\ ~isConnected

----------------------------------------------------------------------------
(* C35 *)

\* C35: for every accepted event, isDelayedReport, which is read back from
\* the formatted lag, is true exactly when the event was received more than
\* 300000 ms after it happened, the criterion that sets hasDelayedReports in
\* the asset's record.
C35_DelayFlagsAgree ==
    [][ Accepted =>
          LET received == ParseDate(StepEvent.receivedAt)
              delayed == NumGT(DateDiff(received, StepEventTime), DelayThreshold)
              before == StepAsset \in DOMAIN assetStatus
                        /\ assetStatus[StepAsset].hasDelayedReports
          IN /\ StepEvent.isDelayedReport <=> delayed
             /\ assetStatus'[StepAsset].hasDelayedReports <=> (before \/ delayed)
      ]_vars

----------------------------------------------------------------------------
(* C36 *)

\* C36: right after an event is accepted whose event time is valid and no
\* more than the offline threshold before now, getAssetStatus of its asset is
\* 'online' and the asset's lastSeen is a time not before the event time,
\* whatever events the asset received before.
C36_FreshEventIsOnline ==
    [][ (Accepted /\ StepEventTime.valid
           /\ now - StepEventTime.ms <= OfflineThreshold) =>
          /\ getAssetStatus(assetStatus', StepAsset, now) = "online"
          /\ assetStatus'[StepAsset].lastSeen.valid
          /\ assetStatus'[StepAsset].lastSeen.ms >= StepEventTime.ms
      ]_vars

----------------------------------------------------------------------------
(* C37 *)

\* The step is a call of disconnect() from outside.
IsDisconnectCall == called'.n = called.n + 1 /\ called'.last = "disconnect"

\* C37: disconnect() leaves no handler registered; a handler that is not
\* registered is invoked for no event and no step registers it again, a call
\* of connect() included, which leaves the handlers as they are; and the
\* handle of a handler that is not registered changes nothing.
C37_DisconnectDetaches ==
    /\ [] \A id \in 1..issued :
             id \notin HandlerIds(messageHandlers) => AfterHandle(id) = messageHandlers
    /\ [][ /\ IsDisconnectCall =>
                 /\ messageHandlers' = <<>>
                 /\ delivered' = delivered
           /\ IsConnectCall =>
                 /\ messageHandlers' = messageHandlers
                 /\ delivered' = delivered
           /\ \A id \in 1..issued :
                 id \notin HandlerIds(messageHandlers) =>
                    /\ delivered'[id] = delivered[id]
                    /\ id \notin HandlerIds(messageHandlers')
           /\ IsMessageStep =>
                 \A i \in DOMAIN messageHandlers :
                    delivered'[messageHandlers[i].id]
                       = delivered[messageHandlers[i].id] \o StepObserved
         ]_vars

\* Handler 1 got the first event; after disconnect() and connect() a second
\* handler was registered and a second event of the asset was processed: the
\* second handler got it, handler 1 did not.
C37_Witness ==
    /\ called = [n |-> 2, last |-> "connect"]
    /\ issued = 2
    /\ HandlerIds(messageHandlers) = {2}
    /\ Len(delivered[1]) = 1
    /\ ArrivalOf(delivered[1][1]) = 1
    /\ Len(delivered[2]) = 1
    /\ ArrivalOf(delivered[2][1]) = 2
    /\ KAGU3331339 \in DOMAIN historicalData
    /\ Len(historicalData[KAGU3331339]) = 2

----------------------------------------------------------------------------
(* C38 *)

\* The step handles an envelope the upstream sent before.
IsAgainStep == IsHandleStep /\ upstream' = upstream

\* C38: every subscribe request a socket was sent, after a reconnect too and
\* however many events were processed, carries the empty cursor the client
\* was constructed with; and an envelope the upstream sends again is applied
\* in full: it is counted, it is accepted, it is put at the head of its ring
\* over the entry of its first receipt, it is counted in the asset's record
\* and every registered handler is invoked with it.
C38_CursorNeverMoves ==
    /\ [] \A s \in DOMAIN sockets :
             \A i \in DOMAIN sockets[s].requests :
                 sockets[s].requests[i].GetEvents.PrecedingEventID = ""
    /\ [][ IsAgainStep =>
              LET a == KAGU3331339
                  n == Get(upstream.last).Sequence
              IN /\ IsSome(returned')
                 /\ StepEvent.event.sequence = n
                 /\ StepAsset = a
                 /\ \E i \in DOMAIN historicalData[a] :
                       historicalData[a][i].event.event.sequence = n
                 /\ Len(historicalData'[a]) = Len(historicalData[a]) + 1
                 /\ historicalData'[a][1].event = StepEvent
                 /\ \A i \in DOMAIN historicalData[a] :
                       historicalData'[a][i + 1] = historicalData[a][i]
                 /\ assetStatus'[a].eventCount = assetStatus[a].eventCount + 1
                 /\ deviceData'[a] = StepEvent
                 /\ \A i \in DOMAIN messageHandlers :
                       LET id == messageHandlers[i].id IN
                       /\ Len(delivered'[id]) = Len(delivered[id]) + 1
                       /\ delivered'[id][Len(delivered'[id])].event = StepEvent
          ]_vars

\* An envelope was received, the socket was lost and a second one opened,
\* with the same request, and the envelope came again: the ring holds it
\* twice, the record counts two and the handler was invoked twice.
C38_Witness ==
    /\ eventCount = 1
    /\ RingLen(KAGU3331339) = 2
    /\ historicalData[KAGU3331339][1].event.event.sequence
          = historicalData[KAGU3331339][2].event.event.sequence
    /\ assetStatus[KAGU3331339].eventCount = 2
    /\ IsSome(ws)
    /\ sockets[Get(ws)].readyState = "OPEN"
    /\ sockets[Get(ws)].requests = <<getEventsMessage>>
    /\ issued >= 1
    /\ Len(delivered[1]) = 2
    /\ ArrivalOf(delivered[1][1]) = ArrivalOf(delivered[1][2])

----------------------------------------------------------------------------
(* C39 *)

\* The step is one of the connection's: no message is handled and no handler
\* is registered in it.
IsLifecycleStep == ~IsHandleStep /\ issued' = issued

\* C39: a step of the connection, a socket that opens, fails or closes, a
\* reconnect that is scheduled or made, a heartbeat tick, leaves the presence
\* records, the current data, the history rings, the handlers and what they
\* were given unchanged; the 'open' event of a socket sets eventCount,
\* kaguAssetCount and reconnectAttempts to 0, and no other such step changes
\* the two event counters.
C39_StoresSurviveReconnect ==
    [][ IsLifecycleStep =>
          /\ UNCHANGED <<assetStatus, deviceData, historicalData>>
          /\ UNCHANGED <<lastEventTime, returned, messageHandlers, delivered>>
          /\ IF IsOpenStep
             THEN /\ eventCount' = 0
                  /\ kaguAssetCount' = 0
                  /\ reconnectAttempts' = 0
             ELSE UNCHANGED <<eventCount, kaguAssetCount>>
      ]_vars

\* An asset is tracked, with its event in its ring, and the socket that is
\* open now was opened after the event came: the counters are 0 again.
C39_Witness ==
    /\ RingLen(KAGU3331339) = 1
    /\ KAGU3331339 \in DOMAIN deviceData
    /\ assetStatus[KAGU3331339].eventCount = 1
    /\ eventCount = 0
    /\ kaguAssetCount = 0
    /\ reconnectAttempts = 0
    /\ IsSome(ws)
    /\ sockets[Get(ws)].readyState = "OPEN"
    /\ isConnected

====
